---- MODULE Spec2Model ----
(***************************************************************************)
(* Verification model of the data-preparation scripts under src/scripts:   *)
(*   subset_layout_manifests.py   (Layout Subsetter)                       *)
(*   serve_private_gallery.py     (Gallery Renderer)                       *)
(*   build_physics_iq_manifest.py (CSV manifest builder)                   *)
(*   build_wisa_manifest.py       (hub-dataset manifest builder)           *)
(*   prepare_inference_layout.py  (Layout Preparer)                        *)
(*                                                                         *)
(* Strings are sequences of atoms.  An atom is one character, or a literal *)
(* that the regular expressions of the source only ever match as a whole   *)
(* (such as "perspective-left").                                           *)
(***************************************************************************)
EXTENDS Integers, Sequences, FiniteSets, TLC

VARIABLES
    \* ---- Layout Subsetter (subset_layout_manifests.py)
    manifest,         \* (model, task) -> manifest.jsonl file of the dataset
    backup,           \* (model, task) -> manifest.jsonl.pre_subset.bak file
    models,           \* --models, in loop order
    dry_run,          \* --dry-run
    max_per_dataset,  \* --max-per-dataset
    preference,       \* --perspective-preference
    ordered_ids,      \* sample ids of the reference manifest, in file order
    selected_ids,     \* result of _select_ids
    todo,             \* (model, task) pairs main's loop has still to visit
    pc,               \* position of the program
    runs,             \* completed runs of main
    orig,             \* history: manifest before the first run
    after_first,      \* history: manifest when the first run returned
    \* ---- Gallery Renderer (serve_private_gallery.py)
    g_manifests,      \* model -> rows of its manifest.jsonl (one dataset, one task)
    g_models,         \* --models of the current build, in discovery order
    g_queue,          \* (model, row) pairs _collect_entries has still to read
    entries,          \* _collect_entries.entries
    entries_first,    \* history: entries returned by the first build
    g_pc,             \* position of the gallery build
    \* ---- sample_id sanitizers (_safe_id, _safe_sample_id)
    t_script,         \* the script whose sanitizer is applied
    t_value,          \* the raw value
    t_index,          \* the row index
    t_result,         \* the sanitized id
    t_pc,
    \* ---- manifest builders (build_physics_iq_manifest.py, build_wisa_manifest.py)
    b_script,         \* which builder runs
    b_records,        \* the input records, in the (possibly shuffled) order of indices
    b_limit,          \* --limit
    b_pos,            \* out_idx of the record the loop is at
    b_seen,           \* seen / seen_ids
    b_rows,           \* sample_id of every row written to the output manifest
    b_skipped,        \* skipped
    b_considered,     \* considered_after_filter
    b_pc,
    \* ---- _normalize_name (build_physics_iq_manifest.py)
    n_parts,          \* tokens of the file name
    n_sep,            \* separator between the tokens
    n_upper,          \* whether the plain name is in upper case
    n_key,            \* key of the name with its noise tokens
    n_plain_key,      \* key of the name without them
    n_again,          \* key of n_key
    n_pc,
    \* ---- Gallery Renderer: main and _render_html (serve_private_gallery.py)
    r_include_missing, \* --include-missing
    r_max_rows,       \* --max-rows
    r_entries,        \* entries of main that _render_html has still to visit
    r_written,        \* keys of the table rows appended to parts, in order
    rows_written,     \* _render_html.rows_written
    rows_with_any,    \* _render_html.rows_with_any
    r_pc,
    \* ---- Layout Preparer (prepare_inference_layout.py)
    l_rows,           \* rows of the input manifest, as _read_manifest returns them
    l_tasks,          \* --tasks
    l_extract,        \* extract_first_frame (not --no-extract-first-frame)
    l_strict,         \* strict_i2v_inputs (not --allow-missing-i2v-image)
    l_root_exists,    \* the run root directory exists
    l_root_created,   \* this run created the run root directory
    l_fs,             \* directories and files this run created under the run root
    l_records,        \* records returned by _normalize_rows
    l_todo,           \* records _prepare_shared_assets has still to visit
    l_assets,         \* assets of _prepare_shared_assets
    l_pairs,          \* (model, task) pairs _build_model_task_layout has still to visit
    l_manifests,      \* (model, task) -> sample ids of the rows of its manifest.jsonl
    l_skipped,        \* (model, task) -> skipped_i2v_samples of its layout summary
    l_error,          \* the exception main raised, if any
    l_pc,
    \* ---- Layout Preparer: calls of _materialize_file on one destination path
    mt_dst,           \* the directory entry at dst
    mt_before,        \* the directory entry at dst before the last call
    mt_src,           \* src of the last call
    mt_mode,          \* mode of the last call
    mt_error,         \* the exception the last call raised, if any
    mt_calls,         \* calls made
    \* ---- CSV manifest builder: _pick_best_match (build_physics_iq_manifest.py)
    k_matches,        \* matches: the candidate paths of one lookup
    k_prefer,         \* prefer_substrings
    k_take,           \* take_filter
    k_best,           \* the path returned, <<>> for None
    k_pc,
    \* ---- Gallery Renderer: calls of _link_media for one source path
    lm_dst,           \* the directory entry at media_dir / _safe_media_name(src)
    lm_media_dir,     \* media_dir exists
    lm_before,        \* lm_dst and lm_media_dir before the last call
    lm_src,           \* what the last call found at src
    lm_ref,           \* the last call returned a reference, not None
    lm_unlinked,      \* the last call removed the entry at dst
    lm_linked,        \* the last call created a symbolic link at dst
    lm_calls          \* calls made

subsetVars == <<manifest, backup, models, dry_run, max_per_dataset, preference,
                ordered_ids, selected_ids, todo, pc, runs, orig, after_first>>

galleryVars == <<g_manifests, g_models, g_queue, entries, entries_first, g_pc>>

textVars == <<t_script, t_value, t_index, t_result, t_pc>>

builderVars == <<b_script, b_records, b_limit, b_pos, b_seen, b_rows, b_skipped,
                 b_considered, b_pc>>

normalizeVars == <<n_parts, n_sep, n_upper, n_key, n_plain_key, n_again, n_pc>>

renderVars == <<r_include_missing, r_max_rows, r_entries, r_written, rows_written,
                rows_with_any, r_pc>>

layoutVars == <<l_rows, l_tasks, l_extract, l_strict, l_root_exists, l_root_created,
                l_fs, l_records, l_todo, l_assets, l_pairs, l_manifests, l_skipped,
                l_error, l_pc>>

placeVars == <<mt_dst, mt_before, mt_src, mt_mode, mt_error, mt_calls>>

rankVars == <<k_matches, k_prefer, k_take, k_best, k_pc>>

mediaVars == <<lm_dst, lm_media_dir, lm_before, lm_src, lm_ref, lm_unlinked, lm_linked,
               lm_calls>>

vars == <<subsetVars, galleryVars, textVars, builderVars, normalizeVars, renderVars, layoutVars, placeVars, rankVars, mediaVars>>

\* what the steps of one script leave alone: the state of the other scripts
nonSubsetVars == <<galleryVars, textVars, builderVars, normalizeVars, renderVars, layoutVars, placeVars, rankVars, mediaVars>>

nonGalleryVars == <<subsetVars, textVars, builderVars, normalizeVars, renderVars, layoutVars, placeVars, rankVars, mediaVars>>

nonTextVars == <<subsetVars, galleryVars, builderVars, normalizeVars, renderVars, layoutVars, placeVars, rankVars, mediaVars>>

nonBuilderVars == <<subsetVars, galleryVars, textVars, normalizeVars, renderVars, layoutVars, placeVars, rankVars, mediaVars>>

nonNormalizeVars == <<subsetVars, galleryVars, textVars, builderVars, renderVars, layoutVars, placeVars, rankVars, mediaVars>>

nonRenderVars == <<subsetVars, galleryVars, textVars, builderVars, normalizeVars, layoutVars, placeVars, rankVars, mediaVars>>

nonLayoutVars == <<subsetVars, galleryVars, textVars, builderVars, normalizeVars, renderVars, placeVars, rankVars, mediaVars>>

nonPlaceVars == <<subsetVars, galleryVars, textVars, builderVars, normalizeVars, renderVars, layoutVars, rankVars, mediaVars>>

nonRankVars == <<subsetVars, galleryVars, textVars, builderVars, normalizeVars, renderVars, layoutVars, placeVars, mediaVars>>

nonMediaVars == <<subsetVars, galleryVars, textVars, builderVars, normalizeVars, renderVars, layoutVars, placeVars, rankVars>>

None == "None"

(***************************************************************************)
(* Bounds of the model.                                                    *)
(***************************************************************************)
MaxIds == 3        \* longest reference id sequence given to _select_ids
MaxCap == 2        \* largest --max-per-dataset
MaxRows == 3       \* most rows of the reference manifest of a run
MaxOtherRows == 1  \* most rows of the other model's manifest of a run
MaxRunCap == 1     \* largest --max-per-dataset of a run
MaxRuns == 2       \* runs of main in a row
MaxGalleryRows == 2  \* most rows of one manifest read by the gallery
MaxRenderRows == 1   \* most rows of one manifest of a rendered gallery
MaxRenderCap == 1    \* largest --max-rows
MaxLayoutRows == 2   \* most rows of the manifest given to the Layout Preparer
MaxPlacements == 2   \* calls of _materialize_file on one destination
MaxMatches == 2      \* most candidate paths of one lookup
MaxLinkCalls == 4    \* calls of _link_media for one source path
MaxResubsetRows == 3  \* most rows of the reference manifest in successive runs
MaxLen == 4        \* longest value given to a sanitizer
MaxIndex == 2      \* largest small row index given to a sanitizer
MaxRecords == 3    \* most input records of a manifest builder run
MaxLimit == 1      \* largest --limit of a manifest builder run
MaxParts == 3      \* most tokens of a file name given to _normalize_name

(***************************************************************************)
(* The state of a script that is not running.                              *)
(***************************************************************************)
SubsetIdle ==
    /\ manifest = <<>>
    /\ backup = <<>>
    /\ models = <<>>
    /\ dry_run = FALSE
    /\ todo = <<>>
    /\ runs = 0
    /\ orig = <<>>
    /\ after_first = <<>>

SubsetOff ==
    /\ SubsetIdle
    /\ max_per_dataset = 0
    /\ preference = <<>>
    /\ ordered_ids = <<>>
    /\ selected_ids = <<>>
    /\ pc = "off"

GalleryIdle ==
    /\ g_manifests = <<>>
    /\ g_models = <<>>
    /\ g_queue = <<>>
    /\ entries = <<>>
    /\ entries_first = <<>>
    /\ g_pc = "off"

TextIdle ==
    /\ t_script = "off"
    /\ t_value = <<>>
    /\ t_index = 0
    /\ t_result = <<>>
    /\ t_pc = "off"

BuilderIdle ==
    /\ b_script = "off"
    /\ b_records = <<>>
    /\ b_limit = 0
    /\ b_pos = 0
    /\ b_seen = {}
    /\ b_rows = <<>>
    /\ b_skipped = 0
    /\ b_considered = 0
    /\ b_pc = "off"

NormalizeIdle ==
    /\ n_parts = <<>>
    /\ n_sep = "_"
    /\ n_upper = FALSE
    /\ n_key = <<>>
    /\ n_plain_key = <<>>
    /\ n_again = <<>>
    /\ n_pc = "off"

RenderIdle ==
    /\ r_include_missing = FALSE
    /\ r_max_rows = 0
    /\ r_entries = <<>>
    /\ r_written = <<>>
    /\ rows_written = 0
    /\ rows_with_any = 0
    /\ r_pc = "off"

NoError == [kind |-> "none", rows |-> <<>>]

LayoutIdle ==
    /\ l_rows = <<>>
    /\ l_tasks = <<>>
    /\ l_extract = FALSE
    /\ l_strict = FALSE
    /\ l_root_exists = FALSE
    /\ l_root_created = FALSE
    /\ l_fs = {}
    /\ l_records = <<>>
    /\ l_todo = <<>>
    /\ l_assets = <<>>
    /\ l_pairs = <<>>
    /\ l_manifests = <<>>
    /\ l_skipped = <<>>
    /\ l_error = NoError
    /\ l_pc = "off"

Absent == [kind |-> "absent", of |-> "", shared |-> FALSE]

PlaceIdle ==
    /\ mt_dst = Absent
    /\ mt_before = Absent
    /\ mt_src = ""
    /\ mt_mode = ""
    /\ mt_error = "none"
    /\ mt_calls = 0

RankIdle ==
    /\ k_matches = <<>>
    /\ k_prefer = <<>>
    /\ k_take = <<>>
    /\ k_best = <<>>
    /\ k_pc = "off"

MediaIdle ==
    /\ lm_dst = Absent
    /\ lm_media_dir = FALSE
    /\ lm_before = <<Absent, FALSE>>
    /\ lm_src = ""
    /\ lm_ref = FALSE
    /\ lm_unlinked = FALSE
    /\ lm_linked = FALSE
    /\ lm_calls = 0

NonSubsetIdle == GalleryIdle /\ TextIdle /\ BuilderIdle /\ NormalizeIdle /\ RenderIdle /\ LayoutIdle /\ PlaceIdle /\ RankIdle /\ MediaIdle

NonGalleryIdle == SubsetOff /\ TextIdle /\ BuilderIdle /\ NormalizeIdle /\ RenderIdle /\ LayoutIdle /\ PlaceIdle /\ RankIdle /\ MediaIdle

NonTextIdle == SubsetOff /\ GalleryIdle /\ BuilderIdle /\ NormalizeIdle /\ RenderIdle /\ LayoutIdle /\ PlaceIdle /\ RankIdle /\ MediaIdle

NonBuilderIdle == SubsetOff /\ GalleryIdle /\ TextIdle /\ NormalizeIdle /\ RenderIdle /\ LayoutIdle /\ PlaceIdle /\ RankIdle /\ MediaIdle

NonNormalizeIdle == SubsetOff /\ GalleryIdle /\ TextIdle /\ BuilderIdle /\ RenderIdle /\ LayoutIdle /\ PlaceIdle /\ RankIdle /\ MediaIdle

NonRenderIdle == SubsetOff /\ TextIdle /\ BuilderIdle /\ NormalizeIdle /\ LayoutIdle /\ PlaceIdle /\ RankIdle /\ MediaIdle

NonLayoutIdle == SubsetOff /\ GalleryIdle /\ TextIdle /\ BuilderIdle /\ NormalizeIdle /\ RenderIdle /\ PlaceIdle /\ RankIdle /\ MediaIdle

NonPlaceIdle == SubsetOff /\ GalleryIdle /\ TextIdle /\ BuilderIdle /\ NormalizeIdle /\ RenderIdle /\ LayoutIdle /\ RankIdle /\ MediaIdle

NonRankIdle == SubsetOff /\ GalleryIdle /\ TextIdle /\ BuilderIdle /\ NormalizeIdle /\ RenderIdle /\ LayoutIdle /\ PlaceIdle /\ MediaIdle

NonMediaIdle == SubsetOff /\ GalleryIdle /\ TextIdle /\ BuilderIdle /\ NormalizeIdle /\ RenderIdle /\ LayoutIdle /\ PlaceIdle /\ RankIdle

(***************************************************************************)
(* String helpers shared by the scripts.                                   *)
(***************************************************************************)
RECURSIVE LStrip(_)
LStrip(s) ==
    IF s # <<>> /\ Head(s) = " " THEN LStrip(Tail(s)) ELSE s

RECURSIVE RStrip(_)
RStrip(s) ==
    IF s # <<>> /\ s[Len(s)] = " " THEN RStrip(SubSeq(s, 1, Len(s) - 1)) ELSE s

\* str.strip()
Strip(s) == RStrip(LStrip(s))

SetOf(seq) == {seq[i] : i \in 1..Len(seq)}

(***************************************************************************)
(* Layout Subsetter: sample ids, grouping and selection.                   *)
(***************************************************************************)
PERSPECTIVES == <<"left", "center", "right">>

Digits == {"0", "1", "2", "3", "4", "5", "6", "7", "8", "9"}

\* the literal "perspective-<p>" of PERSPECTIVE_RE, one atom per label
PerspectiveAtom(p) ==
    CASE p = "left" -> "perspective-left"
      [] p = "center" -> "perspective-center"
      [] p = "right" -> "perspective-right"

PerspectiveAtoms == {PerspectiveAtom(PERSPECTIVES[i]) : i \in 1..Len(PERSPECTIVES)}

AtomPerspective(a) ==
    CHOOSE p \in {PERSPECTIVES[i] : i \in 1..Len(PERSPECTIVES)} : PerspectiveAtom(p) = a

\* number of leading digit atoms of s
RECURSIVE LeadingDigits(_)
LeadingDigits(s) ==
    IF s # <<>> /\ Head(s) \in Digits THEN 1 + LeadingDigits(Tail(s)) ELSE 0

\* LEADING_INDEX_RE.sub("", s) with LEADING_INDEX_RE = ^\d+_
LEADING_INDEX_RE_sub(s) ==
    LET n == LeadingDigits(s)
    IN  IF n >= 1 /\ Len(s) > n /\ s[n + 1] = "_"
        THEN SubSeq(s, n + 2, Len(s))
        ELSE s

\* PERSPECTIVE_RE = _perspective-(left|center|right)_ matches s at position i
PERSPECTIVE_RE_at(s, i) ==
    /\ i >= 1
    /\ i + 2 <= Len(s)
    /\ s[i] = "_"
    /\ s[i + 1] \in PerspectiveAtoms
    /\ s[i + 2] = "_"

\* PERSPECTIVE_RE.search(s): position of the leftmost match, 0 if there is none
PERSPECTIVE_RE_search(s) ==
    IF \E i \in 1..Len(s) : PERSPECTIVE_RE_at(s, i)
    THEN CHOOSE i \in 1..Len(s) :
            /\ PERSPECTIVE_RE_at(s, i)
            /\ \A j \in 1..(i - 1) : ~PERSPECTIVE_RE_at(s, j)
    ELSE 0

\* PERSPECTIVE_RE.sub("_", s): every non-overlapping match, left to right
RECURSIVE PERSPECTIVE_RE_sub_from(_, _)
PERSPECTIVE_RE_sub_from(s, i) ==
    IF i > Len(s) THEN <<>>
    ELSE IF PERSPECTIVE_RE_at(s, i)
         THEN <<"_">> \o PERSPECTIVE_RE_sub_from(s, i + 3)
         ELSE <<s[i]>> \o PERSPECTIVE_RE_sub_from(s, i + 1)

PERSPECTIVE_RE_sub(s) == PERSPECTIVE_RE_sub_from(s, 1)

\* mutant of _sample_group: the perspective marker is left in the group key
SampleGroupKeepsMarker(sample_id) ==
    LET normalized == LEADING_INDEX_RE_sub(sample_id)
        at == PERSPECTIVE_RE_search(normalized)
    IN  IF at = 0
        THEN [group_key |-> normalized, perspective |-> None]
        ELSE [group_key |-> normalized,
              perspective |-> AtomPerspective(normalized[at + 1])]

_sample_group(sample_id) ==
    LET normalized == LEADING_INDEX_RE_sub(sample_id)
        at == PERSPECTIVE_RE_search(normalized)
    IN  IF at = 0
        THEN [group_key |-> normalized, perspective |-> None]
        ELSE [group_key |-> PERSPECTIVE_RE_sub(normalized),
              perspective |-> AtomPerspective(normalized[at + 1])]

\* first loop of _select_ids: buckets by group key, groups in first-seen order
RECURSIVE GroupIds(_, _, _)
GroupIds(ids, grouped, group_order) ==
    IF ids = <<>> THEN [grouped |-> grouped, group_order |-> group_order]
    ELSE LET sid == Head(ids)
             sg == _sample_group(sid)
             gkey == sg.group_key
             fresh == gkey \notin DOMAIN grouped
             bucket == IF fresh THEN <<>> ELSE grouped[gkey]
             label == IF sg.perspective = None THEN "__single__" ELSE sg.perspective
         IN  GroupIds(Tail(ids),
                      (gkey :> ((label :> sid) @@ bucket)) @@ grouped,
                      IF fresh THEN Append(group_order, gkey) ELSE group_order)

\* the order sorted() gives the keys a bucket can hold
SortedLabels == <<"__single__", "center", "left", "right">>

\* sorted(bucket.keys())[0]
SortedFirstKey(bucket) ==
    LET i == CHOOSE i \in 1..Len(SortedLabels) :
                /\ SortedLabels[i] \in DOMAIN bucket
                /\ \A j \in 1..(i - 1) : SortedLabels[j] \notin DOMAIN bucket
    IN  SortedLabels[i]

\* Optional[str]: chosen is None, or chosen is a sample id
NoChoice == [found |-> FALSE, sid |-> <<>>]

Choice(sid) == [found |-> TRUE, sid |-> sid]

\* mutant of FirstPreferred: the last preferred perspective present wins
RECURSIVE LastPreferred(_, _)
LastPreferred(bucket, pref) ==
    IF pref = <<>> THEN NoChoice
    ELSE IF pref[Len(pref)] \in DOMAIN bucket THEN Choice(bucket[pref[Len(pref)]])
         ELSE LastPreferred(bucket, SubSeq(pref, 1, Len(pref) - 1))

\* for p in preference: if p in bucket: chosen = bucket[p]; break
RECURSIVE FirstPreferred(_, _)
FirstPreferred(bucket, pref) ==
    IF pref = <<>> THEN NoChoice
    ELSE IF Head(pref) \in DOMAIN bucket THEN Choice(bucket[Head(pref)])
         ELSE FirstPreferred(bucket, Tail(pref))

\* the representative _select_ids takes from one bucket
Chosen(bucket, pref) ==
    IF "__single__" \in DOMAIN bucket THEN Choice(bucket["__single__"])
    ELSE LET preferred == FirstPreferred(bucket, pref)
         IN  IF ~preferred.found /\ DOMAIN bucket # {}
             THEN Choice(bucket[SortedFirstKey(bucket)])
             ELSE preferred

\* mutant of CapReached: off by one, the loop stops one id late
CapReachedLate(max, n) == max > 0 /\ n > max

\* if max_per_dataset > 0 and len(selected) >= max_per_dataset: break
CapReached(max, n) == max > 0 /\ n >= max

\* second loop of _select_ids
RECURSIVE SelectLoop(_, _, _, _, _)
SelectLoop(group_order, grouped, selected, max, pref) ==
    IF group_order = <<>> THEN selected
    ELSE LET chosen == Chosen(grouped[Head(group_order)], pref)
         IN  IF ~chosen.found
             THEN SelectLoop(Tail(group_order), grouped, selected, max, pref)
             ELSE LET next == Append(selected, chosen.sid)
                  IN  IF CapReached(max, Len(next)) THEN next
                      ELSE SelectLoop(Tail(group_order), grouped, next, max, pref)

_select_ids(ids, max, pref) ==
    LET g == GroupIds(ids, <<>>, <<>>)
    IN  SelectLoop(g.group_order, g.grouped, <<>>, max, pref)

(***************************************************************************)
(* Sample ids the model draws from.                                        *)
(***************************************************************************)
idLeft == <<"1", "_", "s", "_", "perspective-left", "_", "x">>
idCenter == <<"2", "_", "s", "_", "perspective-center", "_", "x">>
idRight == <<"3", "_", "s", "_", "perspective-right", "_", "x">>
idPlain == <<"s", "_", "x">>
idY1 == <<"1", "_", "y">>
idY2 == <<"2", "_", "y">>
idBlank == <<" ">>

\* ids of the reference sequences given to _select_ids
SelectIds == {idLeft, idCenter, idRight, idPlain, idY1, idY2}

\* raw sample_id values of the manifest rows of a run
RowIds == {idLeft, idCenter, idY1, idBlank}

Preferences == {<<"center", "left", "right">>, <<"right", "left">>, <<>>}

RunPreferences == {<<"center", "left", "right">>, <<"left">>}

SeqsUpTo(S, n) == UNION {[1..k -> S] : k \in 0..n}

(***************************************************************************)
(* Layout Subsetter: files and main.                                       *)
(***************************************************************************)
DEFAULT_MODELS == <<"wan22", "wan21">>

reference_model == "wan22"

reference_task == "t2v"

tasks == <<"t2v">>

Keys == {<<DEFAULT_MODELS[i], tasks[j]>> : i \in 1..Len(DEFAULT_MODELS), j \in 1..Len(tasks)}

RefKey == <<reference_model, reference_task>>

NoFile == [exists |-> FALSE, lines |-> <<>>]

File(lines) == [exists |-> TRUE, lines |-> lines]

\* Row(sample_id, payload) of one line; the payload is the line's raw sample_id
Row(payload) == [sample_id |-> Strip(payload), payload |-> payload]

\* _read_jsonl: a line whose stripped sample_id is empty yields no row
RECURSIVE _read_jsonl(_)
_read_jsonl(lines) ==
    IF lines = <<>> THEN <<>>
    ELSE LET row == Row(Head(lines))
         IN  IF row.sample_id = <<>> THEN _read_jsonl(Tail(lines))
             ELSE <<row>> \o _read_jsonl(Tail(lines))

\* json.dumps(r.payload) + "\n" for r in rows
Dump(rows) == [i \in 1..Len(rows) |-> rows[i].payload]

\* mutant of OutRows: the membership test is inverted
OutRowsInverted(rows, selected) ==
    SelectSeq(rows, LAMBDA r : r.sample_id \notin SetOf(selected))

\* out_rows = [r for r in rows if r.sample_id in selected_set]
OutRows(rows, selected) ==
    SelectSeq(rows, LAMBDA r : r.sample_id \in SetOf(selected))

\* mutant of LoopOrder: only the first requested model is visited
LoopOrderFirstModel(ms) ==
    [i \in 1..Len(tasks) |-> <<ms[1], tasks[i]>>]

\* for model in models: for task in tasks
LoopOrder(ms) ==
    [i \in 1..(Len(ms) * Len(tasks)) |->
        <<ms[((i - 1) \div Len(tasks)) + 1], tasks[((i - 1) % Len(tasks)) + 1]>>]

(***************************************************************************)
(* Selection alone: _select_ids applied to a reference id sequence.        *)
(***************************************************************************)
SelectInit ==
    /\ NonSubsetIdle
    /\ SubsetIdle
    /\ ordered_ids \in SeqsUpTo(SelectIds, MaxIds)
    /\ max_per_dataset \in 0..MaxCap
    /\ preference \in Preferences
    /\ selected_ids = <<>>
    /\ pc = "select"

Select ==
    /\ pc = "select"
    /\ selected_ids' = _select_ids(ordered_ids, max_per_dataset, preference)
    /\ pc' = "selected"
    /\ UNCHANGED <<manifest, backup, models, dry_run, max_per_dataset, preference,
                   ordered_ids, todo, runs, orig, after_first>>
    /\ UNCHANGED nonSubsetVars

SelectNext == Select

SpecSelect == SelectInit /\ [][SelectNext]_vars

(***************************************************************************)
(* Runs of main on one dataset of a prepared layout.                       *)
(***************************************************************************)
SubsetInit ==
    /\ NonSubsetIdle
    /\ manifest \in {m \in [Keys -> {NoFile} \cup {File(l) : l \in SeqsUpTo(RowIds, MaxRows)}] :
                        \A k \in Keys \ {RefKey} : Len(m[k].lines) <= MaxOtherRows}
    /\ backup = [k \in Keys |-> NoFile]
    /\ models \in {DEFAULT_MODELS, <<"wan21">>}
    /\ dry_run \in BOOLEAN
    /\ max_per_dataset \in 0..MaxRunCap
    /\ preference \in RunPreferences
    /\ ordered_ids = <<>>
    /\ selected_ids = <<>>
    /\ todo = <<>>
    /\ pc = "idle"
    /\ runs = 0
    /\ orig = manifest
    /\ after_first = manifest

\* main, lines 189-194: the reference manifest of the dataset is missing
RefMissing ==
    /\ pc = "idle"
    /\ runs < MaxRuns
    /\ ~manifest[RefKey].exists
    /\ pc' = "failed"
    /\ UNCHANGED <<manifest, backup, models, dry_run, max_per_dataset, preference,
                   ordered_ids, selected_ids, todo, runs, orig, after_first>>
    /\ UNCHANGED nonSubsetVars

\* main, lines 196-203: read the reference manifest and select
StartRun ==
    /\ pc = "idle"
    /\ runs < MaxRuns
    /\ manifest[RefKey].exists
    /\ LET ref_rows == _read_jsonl(manifest[RefKey].lines)
           ids == [i \in 1..Len(ref_rows) |-> ref_rows[i].sample_id]
       IN  /\ ordered_ids' = ids
           /\ selected_ids' = _select_ids(ids, max_per_dataset, preference)
    /\ todo' = LoopOrder(models)
    /\ pc' = "loop"
    /\ UNCHANGED <<manifest, backup, models, dry_run, max_per_dataset, preference,
                   runs, orig, after_first>>
    /\ UNCHANGED nonSubsetVars

\* main, lines 214-217: skip missing manifest
SkipMissing ==
    /\ pc = "loop"
    /\ todo # <<>>
    /\ ~manifest[Head(todo)].exists
    /\ todo' = Tail(todo)
    /\ UNCHANGED <<manifest, backup, models, dry_run, max_per_dataset, preference,
                   ordered_ids, selected_ids, pc, runs, orig, after_first>>
    /\ UNCHANGED nonSubsetVars

\* mutant of DryRunStep: --dry-run is ignored, the manifest is backed up and rewritten
DryRunWrites ==
    /\ pc = "loop"
    /\ todo # <<>>
    /\ manifest[Head(todo)].exists
    /\ dry_run
    /\ LET k == Head(todo)
           rows == _read_jsonl(manifest[k].lines)
       IN  /\ backup' = IF backup[k].exists THEN backup
                        ELSE [backup EXCEPT ![k] = File(Dump(rows))]
           /\ manifest' = [manifest EXCEPT ![k] = File(Dump(OutRows(rows, selected_ids)))]
    /\ todo' = Tail(todo)
    /\ UNCHANGED <<models, dry_run, max_per_dataset, preference,
                   ordered_ids, selected_ids, pc, runs, orig, after_first>>
    /\ UNCHANGED nonSubsetVars

\* main, lines 219-228: with --dry-run the counts are printed and nothing is written
DryRunStep ==
    /\ pc = "loop"
    /\ todo # <<>>
    /\ manifest[Head(todo)].exists
    /\ dry_run
    /\ todo' = Tail(todo)
    /\ UNCHANGED <<manifest, backup, models, dry_run, max_per_dataset, preference,
                   ordered_ids, selected_ids, pc, runs, orig, after_first>>
    /\ UNCHANGED nonSubsetVars

\* mutant of Rewrite: the backup is written on every run, also when it exists
RewriteFreshBackup ==
    /\ pc = "loop"
    /\ todo # <<>>
    /\ manifest[Head(todo)].exists
    /\ ~dry_run
    /\ LET k == Head(todo)
           rows == _read_jsonl(manifest[k].lines)
       IN  /\ backup' = [backup EXCEPT ![k] = File(Dump(rows))]
           /\ manifest' = [manifest EXCEPT ![k] = File(Dump(OutRows(rows, selected_ids)))]
    /\ todo' = Tail(todo)
    /\ UNCHANGED <<models, dry_run, max_per_dataset, preference,
                   ordered_ids, selected_ids, pc, runs, orig, after_first>>
    /\ UNCHANGED nonSubsetVars

\* main, lines 219-235: back the manifest up once, then rewrite it
Rewrite ==
    /\ pc = "loop"
    /\ todo # <<>>
    /\ manifest[Head(todo)].exists
    /\ ~dry_run
    /\ LET k == Head(todo)
           rows == _read_jsonl(manifest[k].lines)
           out_rows == OutRows(rows, selected_ids)
       IN  /\ backup' = IF backup[k].exists THEN backup
                        ELSE [backup EXCEPT ![k] = File(Dump(rows))]
           /\ manifest' = [manifest EXCEPT ![k] = File(Dump(out_rows))]
    /\ todo' = Tail(todo)
    /\ UNCHANGED <<models, dry_run, max_per_dataset, preference,
                   ordered_ids, selected_ids, pc, runs, orig, after_first>>
    /\ UNCHANGED nonSubsetVars

\* main, lines 237-241: the loops are over, main returns 0
FinishRun ==
    /\ pc = "loop"
    /\ todo = <<>>
    /\ pc' = "idle"
    /\ runs' = runs + 1
    /\ after_first' = IF runs = 0 THEN manifest ELSE after_first
    /\ UNCHANGED <<manifest, backup, models, dry_run, max_per_dataset, preference,
                   ordered_ids, selected_ids, todo, orig>>
    /\ UNCHANGED nonSubsetVars

SubsetNext ==
    \/ RefMissing
    \/ StartRun
    \/ SkipMissing
    \/ DryRunStep
    \/ Rewrite
    \/ FinishRun

SpecSubset == SubsetInit /\ [][SubsetNext]_vars

(***************************************************************************)
(* Successive non-dry runs of main, each with its own --max-per-dataset    *)
(* and --perspective-preference.                                           *)
(***************************************************************************)
ResubsetInit ==
    /\ NonSubsetIdle
    /\ manifest \in {m \in [Keys -> {NoFile} \cup {File(l) : l \in SeqsUpTo(RowIds, MaxResubsetRows)}] :
                        /\ m[RefKey].exists
                        /\ \A k \in Keys \ {RefKey} : Len(m[k].lines) <= MaxOtherRows}
    /\ backup = [k \in Keys |-> NoFile]
    /\ models = DEFAULT_MODELS
    /\ dry_run = FALSE
    /\ max_per_dataset \in 0..MaxRunCap
    /\ preference \in RunPreferences
    /\ ordered_ids = <<>>
    /\ selected_ids = <<>>
    /\ todo = <<>>
    /\ pc = "idle"
    /\ runs = 0
    /\ orig = manifest
    /\ after_first = manifest

\* parse_args of the next run: another cap, another preference order
Reconfigure ==
    /\ pc = "idle"
    /\ runs >= 1
    /\ runs < MaxRuns
    /\ \E cap \in 0..MaxRunCap, pref \in RunPreferences :
          /\ <<cap, pref>> # <<max_per_dataset, preference>>
          /\ max_per_dataset' = cap
          /\ preference' = pref
    /\ UNCHANGED <<manifest, backup, models, dry_run, ordered_ids, selected_ids,
                   todo, pc, runs, orig, after_first>>
    /\ UNCHANGED nonSubsetVars

ResubsetNext ==
    \/ StartRun
    \/ SkipMissing
    \/ Rewrite
    \/ FinishRun
    \/ Reconfigure

SpecResubset == ResubsetInit /\ [][ResubsetNext]_vars

(***************************************************************************)
(* Gallery Renderer: _collect_entries.                                     *)
(* Text fields and paths are atom sequences; <<>> is the empty string, and *)
(* as a path it is None (a Path is only ever built from a non-empty text). *)
(***************************************************************************)
GALLERY_MODELS == <<"wan22", "wan21">>

NoPath == <<>>

\* the output files on disk: regular files with their size and mtime
IsFile(path) == path \in {<<"o1">>, <<"o2">>, <<"o3">>, <<"oEmpty">>}

StSize(path) == IF path = <<"oEmpty">> THEN 0 ELSE 1

StMtime(path) == IF path = <<"o1">> THEN 1 ELSE 2

\* mutant of _maybe_pick_existing: any candidate path is taken, whatever is on disk
PickAnyCandidate(current, candidate) ==
    IF candidate = NoPath THEN current ELSE candidate

\* mutant of _maybe_pick_existing: a candidate as recent as the current one wins
PickOnTie(current, candidate) ==
    IF candidate = NoPath THEN current
    ELSE IF ~IsFile(candidate) \/ StSize(candidate) <= 0 THEN current
    ELSE IF current = NoPath THEN candidate
    ELSE IF StMtime(candidate) >= StMtime(current) THEN candidate
    ELSE current

_maybe_pick_existing(current, candidate) ==
    IF candidate = NoPath THEN current
    ELSE IF ~IsFile(candidate) \/ StSize(candidate) <= 0 THEN current
    ELSE IF current = NoPath THEN candidate
    ELSE IF StMtime(candidate) > StMtime(current) THEN candidate
    ELSE current

GalleryRow(sid, prompt, gt, image, out) ==
    [sample_id |-> sid, prompt |-> prompt, ground_truth_video |-> gt,
     image_path |-> image, output_video |-> out]

\* manifest rows the gallery model draws from
GalleryRows ==
    { GalleryRow(<<"a">>, <<"p1">>, <<"g1">>, <<>>, <<"o1">>),
      GalleryRow(<<"a">>, <<" ", "p2">>, <<"g2">>, <<"i1">>, <<"o2">>),
      GalleryRow(<<"a">>, <<" ">>, <<>>, <<>>, <<"oEmpty">>),
      GalleryRow(<<"a">>, <<"p1">>, <<"g1">>, <<>>, <<"oMissing">>),
      GalleryRow(<<"a">>, <<>>, <<>>, <<>>, <<"o3">>),
      GalleryRow(<<"b">>, <<"p1">>, <<>>, <<"i1">>, <<"o3">>),
      GalleryRow(<<" ">>, <<"p1">>, <<"g1">>, <<>>, <<"o1">>) }

\* Entry(dataset, task, sample_id) with entry.outputs = {m: None for m in models}
Entry(dataset, task, sample_id, ms) ==
    [dataset |-> dataset, task |-> task, sample_id |-> sample_id,
     prompt |-> <<>>, ground_truth_video |-> NoPath, image_path |-> NoPath,
     outputs |-> [m \in SetOf(ms) |-> NoPath]]

\* mutant of EntryFor: the entry of a key is created anew for every row
EntryAlwaysNew(es, key, ms) == Entry(key[1], key[2], key[3], ms)

\* entry = entries.get(key); if entry is None: entry = Entry(...)
EntryFor(es, key, ms) ==
    IF key \in DOMAIN es THEN es[key] ELSE Entry(key[1], key[2], key[3], ms)

\* the body of _collect_entries' loop for one row with a non-empty sample_id
CollectRow(es, ms, model, dataset, task, row) ==
    LET sample_id == Strip(row.sample_id)
        key == <<dataset, task, sample_id>>
        entry == EntryFor(es, key, ms)
        gt == Strip(row.ground_truth_video)
        image == Strip(row.image_path)
        output_video == Strip(row.output_video)
        candidate == IF output_video # <<>> THEN output_video ELSE NoPath
        current == IF model \in DOMAIN entry.outputs THEN entry.outputs[model] ELSE NoPath
        updated ==
            [entry EXCEPT
                !.prompt = IF entry.prompt = <<>> THEN Strip(row.prompt) ELSE @,
                !.ground_truth_video = IF gt # <<>> /\ @ = NoPath THEN gt ELSE @,
                !.image_path = IF image # <<>> /\ @ = NoPath THEN image ELSE @,
                !.outputs = (model :> _maybe_pick_existing(current, candidate)) @@ @]
    IN  (key :> updated) @@ es

\* _discover_manifests: one manifest per model, in the order of --models
RECURSIVE Discover(_, _)
Discover(ms, files) ==
    IF ms = <<>> THEN <<>>
    ELSE [i \in 1..Len(files[Head(ms)]) |->
              [model |-> Head(ms), dataset |-> "physics_iq", task |-> "t2v",
               row |-> files[Head(ms)][i]]]
         \o Discover(Tail(ms), files)

Reverse(seq) == [i \in 1..Len(seq) |-> seq[Len(seq) + 1 - i]]

GalleryInit ==
    /\ NonGalleryIdle
    /\ g_manifests \in [SetOf(GALLERY_MODELS) -> SeqsUpTo(GalleryRows, MaxGalleryRows)]
    /\ g_models = GALLERY_MODELS
    /\ g_queue = Discover(g_models, g_manifests)
    /\ entries = <<>>
    /\ entries_first = <<>>
    /\ g_pc = "collect"

\* _collect_entries, lines 171-178: a row without a sample_id is passed over
CollectSkip ==
    /\ g_pc \in {"collect", "collect_again"}
    /\ g_queue # <<>>
    /\ Strip(Head(g_queue).row.sample_id) = <<>>
    /\ g_queue' = Tail(g_queue)
    /\ UNCHANGED <<g_manifests, g_models, entries, entries_first, g_pc>>
    /\ UNCHANGED nonGalleryVars

\* _collect_entries, lines 171-199: one row is merged into its entry
Collect ==
    /\ g_pc \in {"collect", "collect_again"}
    /\ g_queue # <<>>
    /\ Strip(Head(g_queue).row.sample_id) # <<>>
    /\ LET item == Head(g_queue)
       IN  entries' = CollectRow(entries, g_models, item.model, item.dataset,
                                 item.task, item.row)
    /\ g_queue' = Tail(g_queue)
    /\ UNCHANGED <<g_manifests, g_models, entries_first, g_pc>>
    /\ UNCHANGED nonGalleryVars

\* _collect_entries returns; the gallery is built again with --models reversed
CollectDone ==
    /\ g_pc = "collect"
    /\ g_queue = <<>>
    /\ entries_first' = entries
    /\ entries' = <<>>
    /\ g_models' = Reverse(g_models)
    /\ g_queue' = Discover(Reverse(g_models), g_manifests)
    /\ g_pc' = "collect_again"
    /\ UNCHANGED g_manifests
    /\ UNCHANGED nonGalleryVars

\* _collect_entries returns for the second build
CollectAgainDone ==
    /\ g_pc = "collect_again"
    /\ g_queue = <<>>
    /\ g_pc' = "done"
    /\ UNCHANGED <<g_manifests, g_models, g_queue, entries, entries_first>>
    /\ UNCHANGED nonGalleryVars

GalleryNext ==
    \/ CollectSkip
    \/ Collect
    \/ CollectDone
    \/ CollectAgainDone

SpecGallery == GalleryInit /\ [][GalleryNext]_vars

(***************************************************************************)
(* Gallery Renderer: main, from _collect_entries to _render_html.          *)
(***************************************************************************)
\* the sample ids of GalleryRows in the order sorted() gives them
GalleryIdOrder == <<<<"a">>, <<"b">>>>

\* sorted(entries_map.values(), key=lambda e: (e.dataset, e.task, e.sample_id))
SortedEntries(es) ==
    LET ids == SelectSeq(GalleryIdOrder, LAMBDA s : <<"physics_iq", "t2v", s>> \in DOMAIN es)
    IN  [i \in 1..Len(ids) |-> es[<<"physics_iq", "t2v", ids[i]>>]]

\* mutant of CapRows: the entries are not cut
CapNothing(es, max_rows) == es

\* entries[: args.max_rows] when args.max_rows > 0
CapRows(es, max_rows) ==
    IF max_rows > 0 /\ Len(es) > max_rows THEN SubSeq(es, 1, max_rows) ELSE es

\* any(p is not None and p.is_file() for p in entry.outputs.values())
HasAny(entry) ==
    \E m \in DOMAIN entry.outputs : entry.outputs[m] # NoPath /\ IsFile(entry.outputs[m])

EntryKey(entry) == <<entry.dataset, entry.task, entry.sample_id>>

RenderInit ==
    /\ NonRenderIdle
    /\ g_manifests \in [SetOf(GALLERY_MODELS) -> SeqsUpTo(GalleryRows, MaxRenderRows)]
    /\ g_models = GALLERY_MODELS
    /\ g_queue = Discover(g_models, g_manifests)
    /\ entries = <<>>
    /\ entries_first = <<>>
    /\ g_pc = "collect"
    /\ r_include_missing \in BOOLEAN
    /\ r_max_rows \in 0..MaxRenderCap
    /\ r_entries = <<>>
    /\ r_written = <<>>
    /\ rows_written = 0
    /\ rows_with_any = 0
    /\ r_pc = "collect"

\* main, lines 309-312: the entries are sorted and cut to --max-rows
RenderStart ==
    /\ r_pc = "collect"
    /\ g_pc = "collect"
    /\ g_queue = <<>>
    /\ r_entries' = CapRows(SortedEntries(entries), r_max_rows)
    /\ r_pc' = "render"
    /\ UNCHANGED <<r_include_missing, r_max_rows, r_written, rows_written, rows_with_any>>
    /\ UNCHANGED nonRenderVars

\* _render_html, lines 245-250: an entry without any output is left out
RenderOmit ==
    /\ r_pc = "render"
    /\ r_entries # <<>>
    /\ ~r_include_missing
    /\ ~HasAny(Head(r_entries))
    /\ r_entries' = Tail(r_entries)
    /\ UNCHANGED <<r_include_missing, r_max_rows, r_written, rows_written, rows_with_any,
                   r_pc>>
    /\ UNCHANGED nonRenderVars

\* _render_html, lines 245-284: the table row of an entry is appended
RenderRow ==
    /\ r_pc = "render"
    /\ r_entries # <<>>
    /\ r_include_missing \/ HasAny(Head(r_entries))
    /\ rows_with_any' = IF HasAny(Head(r_entries)) THEN rows_with_any + 1 ELSE rows_with_any
    /\ r_written' = Append(r_written, EntryKey(Head(r_entries)))
    /\ rows_written' = rows_written + 1
    /\ r_entries' = Tail(r_entries)
    /\ UNCHANGED <<r_include_missing, r_max_rows, r_pc>>
    /\ UNCHANGED nonRenderVars

\* _render_html, lines 286-294: the counts are printed, index.html is written
RenderDone ==
    /\ r_pc = "render"
    /\ r_entries = <<>>
    /\ r_pc' = "done"
    /\ UNCHANGED <<r_include_missing, r_max_rows, r_entries, r_written, rows_written,
                   rows_with_any>>
    /\ UNCHANGED nonRenderVars

RenderNext ==
    \/ CollectSkip
    \/ Collect
    \/ RenderStart
    \/ RenderOmit
    \/ RenderRow
    \/ RenderDone

SpecRender == RenderInit /\ [][RenderNext]_vars

(***************************************************************************)
(* Text helpers of the manifest builders and the Layout Preparer.          *)
(* Here every atom of a string is one character.                           *)
(***************************************************************************)
LowerLetters ==
    <<"a", "b", "c", "d", "e", "f", "g", "h", "i", "j", "k", "l", "m",
      "n", "o", "p", "q", "r", "s", "t", "u", "v", "w", "x", "y", "z">>

UpperLetters ==
    <<"A", "B", "C", "D", "E", "F", "G", "H", "I", "J", "K", "L", "M",
      "N", "O", "P", "Q", "R", "S", "T", "U", "V", "W", "X", "Y", "Z">>

DigitChars == <<"0", "1", "2", "3", "4", "5", "6", "7", "8", "9">>

\* the character class [A-Za-z0-9._-]
SafeChars ==
    SetOf(LowerLetters) \cup SetOf(UpperLetters) \cup SetOf(DigitChars) \cup {".", "_", "-"}

\* the character class [a-z0-9]
LowerAlnum == SetOf(LowerLetters) \cup SetOf(DigitChars)

\* str.lower(), one character
LowerChar(c) ==
    IF c \in SetOf(UpperLetters)
    THEN LowerLetters[CHOOSE i \in 1..Len(UpperLetters) : UpperLetters[i] = c]
    ELSE c

\* str.lower()
Lower(s) == [i \in 1..Len(s) |-> LowerChar(s[i])]

\* str.upper(), one character
UpperChar(c) ==
    IF c \in SetOf(LowerLetters)
    THEN UpperLetters[CHOOSE i \in 1..Len(LowerLetters) : LowerLetters[i] = c]
    ELSE c

Upper(s) == [i \in 1..Len(s) |-> UpperChar(s[i])]

\* decimal digits of n >= 0
RECURSIVE DigitsOf(_)
DigitsOf(n) ==
    IF n < 10 THEN <<DigitChars[n + 1]>>
    ELSE Append(DigitsOf(n \div 10), DigitChars[(n % 10) + 1])

RECURSIVE Zeros(_)
Zeros(k) == IF k <= 0 THEN <<>> ELSE <<"0">> \o Zeros(k - 1)

\* f"{n:0{width}d}" for n >= 0
ZeroPad(n, width) == Zeros(width - Len(DigitsOf(n))) \o DigitsOf(n)

\* mutant of ReSubUnsafe: only the first run is replaced (count=1)
RECURSIVE ReSubUnsafeOnce(_)
ReSubUnsafeOnce(s) ==
    IF s = <<>> THEN <<>>
    ELSE IF Head(s) \in SafeChars THEN <<Head(s)>> \o ReSubUnsafeOnce(Tail(s))
    ELSE IF Len(s) >= 2 /\ s[2] \notin SafeChars THEN ReSubUnsafeOnce(Tail(s))
    ELSE <<"_">> \o Tail(s)

\* re.sub(r"[^A-Za-z0-9._-]+", "_", s): every maximal run becomes one "_"
RECURSIVE ReSubUnsafe(_)
ReSubUnsafe(s) ==
    IF s = <<>> THEN <<>>
    ELSE IF Head(s) \in SafeChars THEN <<Head(s)>> \o ReSubUnsafe(Tail(s))
    ELSE IF Len(s) >= 2 /\ s[2] \notin SafeChars THEN ReSubUnsafe(Tail(s))
    ELSE <<"_">> \o ReSubUnsafe(Tail(s))

\* the sanitizer shared by the three scripts, with the script's default id
SafeIdWith(value, default) ==
    LET stripped == Strip(value)
        named == IF stripped = <<>> THEN default ELSE stripped
        replaced == ReSubUnsafe(named)
    IN  IF replaced # <<>> THEN replaced ELSE default

PHYSICS_PREFIX == <<"p", "h", "y", "s", "i", "c", "s", "_">>

WISA_PREFIX == <<"w", "i", "s", "a", "_">>

SAMPLE_PREFIX == <<"s", "a", "m", "p", "l", "e", "_">>

\* build_physics_iq_manifest._safe_id
_safe_id(value, idx) == SafeIdWith(value, PHYSICS_PREFIX \o ZeroPad(idx, 6))

\* build_wisa_manifest._safe_id
_safe_id_wisa(value, index) == SafeIdWith(value, WISA_PREFIX \o ZeroPad(index, 6))

\* prepare_inference_layout._safe_sample_id
_safe_sample_id(raw_value, row_index) ==
    SafeIdWith(raw_value, SAMPLE_PREFIX \o ZeroPad(row_index, 5))

\* position of the last occurrence of c in s, 0 if there is none (str.rfind)
RFind(s, c) ==
    IF \E i \in 1..Len(s) : s[i] = c
    THEN CHOOSE i \in 1..Len(s) : s[i] = c /\ \A j \in (i + 1)..Len(s) : s[j] # c
    ELSE 0

\* Path(p).name: the last component; empty and "." components do not count
RECURSIVE PathName(_)
PathName(p) ==
    LET slash == RFind(p, "/")
        last == SubSeq(p, slash + 1, Len(p))
    IN  IF slash = 0 THEN (IF p = <<".">> THEN <<>> ELSE p)
        ELSE IF last = <<>> \/ last = <<".">> THEN PathName(SubSeq(p, 1, slash - 1))
        ELSE last

\* Path(p).stem: the name without its last suffix
PathStem(p) ==
    LET name == PathName(p)
        dot == RFind(name, ".")
    IN  IF 1 < dot /\ dot < Len(name) THEN SubSeq(name, 1, dot - 1) ELSE name

(***************************************************************************)
(* CSV manifest builder: _normalize_name.                                  *)
(***************************************************************************)
NOISE_TOKENS ==
    { <<"v", "i", "d", "e", "o">>,
      <<"v", "i", "d", "e", "o", "s">>,
      <<"m", "a", "s", "k">>,
      <<"m", "a", "s", "k", "s">>,
      <<"f", "u", "l", "l">>,
      <<"s", "p", "l", "i", "t">>,
      <<"s", "w", "i", "t", "c", "h">>,
      <<"f", "r", "a", "m", "e", "s">>,
      <<"f", "u", "l", "l", "v", "i", "d", "e", "o", "s">>,
      <<"s", "p", "l", "i", "t", "v", "i", "d", "e", "o", "s">>,
      <<"v", "i", "d", "e", "o", "m", "a", "s", "k", "s">>,
      <<"s", "w", "i", "t", "c", "h", "f", "r", "a", "m", "e", "s">>,
      <<"c", "o", "n", "d", "i", "t", "i", "o", "n", "i", "n", "g">>,
      <<"t", "e", "s", "t", "i", "n", "g">>,
      <<"r", "e", "a", "l">>,
      <<"f", "p", "s">>,
      <<"8", "f", "p", "s">>,
      <<"1", "6", "f", "p", "s">>,
      <<"2", "4", "f", "p", "s">>,
      <<"3", "0", "f", "p", "s">>,
      <<"t", "a", "k", "e">>,
      <<"1">>,
      <<"2">> }

\* full[-_]?videos|split[-_]?videos|video[-_]?masks|switch[-_]?frames
ContainerMarkers ==
    { <<"f", "u", "l", "l", "v", "i", "d", "e", "o", "s">>,
      <<"f", "u", "l", "l", "-", "v", "i", "d", "e", "o", "s">>,
      <<"f", "u", "l", "l", "_", "v", "i", "d", "e", "o", "s">>,
      <<"s", "p", "l", "i", "t", "v", "i", "d", "e", "o", "s">>,
      <<"s", "p", "l", "i", "t", "-", "v", "i", "d", "e", "o", "s">>,
      <<"s", "p", "l", "i", "t", "_", "v", "i", "d", "e", "o", "s">>,
      <<"v", "i", "d", "e", "o", "m", "a", "s", "k", "s">>,
      <<"v", "i", "d", "e", "o", "-", "m", "a", "s", "k", "s">>,
      <<"v", "i", "d", "e", "o", "_", "m", "a", "s", "k", "s">>,
      <<"s", "w", "i", "t", "c", "h", "f", "r", "a", "m", "e", "s">>,
      <<"s", "w", "i", "t", "c", "h", "-", "f", "r", "a", "m", "e", "s">>,
      <<"s", "w", "i", "t", "c", "h", "_", "f", "r", "a", "m", "e", "s">> }

\* (?:8|16|24|30)fps
FpsMarkers ==
    { <<"8", "f", "p", "s">>,
      <<"1", "6", "f", "p", "s">>,
      <<"2", "4", "f", "p", "s">>,
      <<"3", "0", "f", "p", "s">> }

\* take[-_]?[12]
TakeMarkers ==
    { <<"t", "a", "k", "e", "1">>,
      <<"t", "a", "k", "e", "-", "1">>,
      <<"t", "a", "k", "e", "_", "1">>,
      <<"t", "a", "k", "e", "2">>,
      <<"t", "a", "k", "e", "-", "2">>,
      <<"t", "a", "k", "e", "_", "2">> }

\* the literal lit is found in s at position i
LiteralAt(s, i, lit) ==
    /\ i >= 1
    /\ i + Len(lit) - 1 <= Len(s)
    /\ SubSeq(s, i, i + Len(lit) - 1) = lit

\* length of the match of (?:^|[_-])(?:markers)(?:[_-]|$) that starts at position
\* i of s, 0 if there is none
MarkerMatchLen(s, i, markers) ==
    LET lead == IF i = 1 /\ \E m \in markers : LiteralAt(s, 1, m) THEN 0
                ELSE IF s[i] \in {"_", "-"} THEN 1
                ELSE 2
    IN  IF lead = 2 \/ ~\E m \in markers : LiteralAt(s, i + lead, m) THEN 0
        ELSE LET m == CHOOSE m \in markers : LiteralAt(s, i + lead, m)
                 next == i + lead + Len(m)
             IN  IF next <= Len(s) /\ s[next] \in {"_", "-"} THEN lead + Len(m) + 1
                 ELSE IF next = Len(s) + 1 THEN lead + Len(m)
                 ELSE 0

\* re.sub(r"(?:^|[_-])(?:markers)(?:[_-]|$)", "_", s)
RECURSIVE MarkerSubFrom(_, _, _)
MarkerSubFrom(s, i, markers) ==
    IF i > Len(s) THEN <<>>
    ELSE LET n == MarkerMatchLen(s, i, markers)
         IN  IF n > 0 THEN <<"_">> \o MarkerSubFrom(s, i + n, markers)
             ELSE <<s[i]>> \o MarkerSubFrom(s, i + 1, markers)

MarkerSub(s, markers) == MarkerSubFrom(s, 1, markers)

\* re.split(r"[^a-z0-9]+", s) without its empty strings, from position i on;
\* cur is the part being read
RECURSIVE SplitParts(_, _, _)
SplitParts(s, i, cur) ==
    IF i > Len(s) THEN (IF cur = <<>> THEN <<>> ELSE <<cur>>)
    ELSE IF s[i] \in LowerAlnum THEN SplitParts(s, i + 1, Append(cur, s[i]))
    ELSE (IF cur = <<>> THEN <<>> ELSE <<cur>>) \o SplitParts(s, i + 1, <<>>)

\* "".join(parts)
RECURSIVE Concat(_)
Concat(parts) == IF parts = <<>> THEN <<>> ELSE Head(parts) \o Concat(Tail(parts))

_normalize_name(name) ==
    LET stem0 == Lower(PathStem(name))
        stem1 == MarkerSub(stem0, ContainerMarkers)
        stem2 == MarkerSub(stem1, FpsMarkers)
        stem3 == MarkerSub(stem2, TakeMarkers)
        parts == SplitParts(stem3, 1, <<>>)
        filtered == SelectSeq(parts, LAMBDA p : p \notin NOISE_TOKENS)
    IN  Concat(filtered)

(***************************************************************************)
(* The sample_id sanitizers applied to one value.                          *)
(***************************************************************************)
\* characters of the values given to the sanitizers: a safe letter, a safe
\* punctuation mark, whitespace, and a character outside [A-Za-z0-9._-]
SanitizeChars == {"a", ".", " ", "/"}

\* row indexes given to the sanitizers; the last one is wider than the padding
SanitizeIndexes == (1..MaxIndex) \cup {1234567}

SanitizeInit ==
    /\ NonTextIdle
    /\ t_script \in {"physics", "wisa", "layout"}
    /\ t_value \in SeqsUpTo(SanitizeChars, MaxLen)
    /\ t_index \in SanitizeIndexes
    /\ t_result = <<>>
    /\ t_pc = "input"

\* build_physics_iq_manifest._safe_id(value, idx)
SanitizePhysics ==
    /\ t_pc = "input"
    /\ t_script = "physics"
    /\ t_result' = _safe_id(t_value, t_index)
    /\ t_pc' = "done"
    /\ UNCHANGED <<t_script, t_value, t_index>>
    /\ UNCHANGED nonTextVars

\* build_wisa_manifest._safe_id(value, index)
SanitizeWisa ==
    /\ t_pc = "input"
    /\ t_script = "wisa"
    /\ t_result' = _safe_id_wisa(t_value, t_index)
    /\ t_pc' = "done"
    /\ UNCHANGED <<t_script, t_value, t_index>>
    /\ UNCHANGED nonTextVars

\* prepare_inference_layout._safe_sample_id(raw_value, row_index)
SanitizeLayout ==
    /\ t_pc = "input"
    /\ t_script = "layout"
    /\ t_result' = _safe_sample_id(t_value, t_index)
    /\ t_pc' = "done"
    /\ UNCHANGED <<t_script, t_value, t_index>>
    /\ UNCHANGED nonTextVars

SanitizeNext ==
    \/ SanitizePhysics
    \/ SanitizeWisa
    \/ SanitizeLayout

SpecSanitize == SanitizeInit /\ [][SanitizeNext]_vars

(***************************************************************************)
(* The main loops of the two manifest builders.                            *)
(* A record is the raw id the script finds for it and its kind:            *)
(*   "no_prompt"  its prompt is empty;                                     *)
(*   "no_video"   it has a prompt, no existing video is resolved for it;   *)
(*   "filtered"   it has a prompt and a resolvable video, a --take-filter  *)
(*                is set and its file names do not contain it (CSV builder *)
(*                only);                                                   *)
(*   "ok"         it has a prompt and a resolvable video, and passes the   *)
(*                take filter if one is set.                               *)
(***************************************************************************)
BuilderRawIds ==
    { <<"a">>,
      <<"a", "_", "0", "0", "0", "0", "0", "3">>,
      <<"a", ".", "m", "p", "4">>,
      <<>> }

BuilderRecords(script) ==
    [raw_id : BuilderRawIds,
     kind : IF script = "physics" THEN {"ok", "no_prompt", "filtered", "no_video"}
            ELSE {"ok", "no_prompt", "no_video"}]

\* f"{sample_id}_{out_idx:06d}" when sample_id is in seen
Disambiguate(sample_id, seen, out_idx) ==
    IF sample_id \in seen THEN sample_id \o <<"_">> \o ZeroPad(out_idx, 6) ELSE sample_id

\* mutant of LimitReached: the loop ends at the row that reaches the limit
LimitReachedAt(limit, considered) == limit > 0 /\ considered >= limit

\* if args.limit > 0 and considered_after_filter > args.limit: break
LimitReached(limit, considered) == limit > 0 /\ considered > limit

\* indices[: args.limit] when args.limit > 0
Truncate(records, limit) ==
    IF limit > 0 /\ Len(records) > limit THEN SubSeq(records, 1, limit) ELSE records

BuilderInit ==
    /\ NonBuilderIdle
    /\ b_script \in {"physics", "wisa"}
    /\ b_records \in SeqsUpTo(BuilderRecords(b_script), MaxRecords)
    /\ b_limit \in 0..MaxLimit
    /\ b_pos = 1
    /\ b_seen = {}
    /\ b_rows = <<>>
    /\ b_skipped = 0
    /\ b_considered = 0
    /\ b_pc = "start"

\* build_physics_iq_manifest.main, lines 215-227
PhysicsStart ==
    /\ b_pc = "start"
    /\ b_script = "physics"
    /\ b_pc' = "loop"
    /\ UNCHANGED <<b_script, b_records, b_limit, b_pos, b_seen, b_rows, b_skipped,
                   b_considered>>
    /\ UNCHANGED nonBuilderVars

\* build_physics_iq_manifest.main, lines 233-242: no prompt, or the take filter
PhysicsSkipEarly ==
    /\ b_pc = "loop"
    /\ b_script = "physics"
    /\ b_pos <= Len(b_records)
    /\ b_records[b_pos].kind \in {"no_prompt", "filtered"}
    /\ b_skipped' = b_skipped + 1
    /\ b_pos' = b_pos + 1
    /\ UNCHANGED <<b_script, b_records, b_limit, b_seen, b_rows, b_considered, b_pc>>
    /\ UNCHANGED nonBuilderVars

\* build_physics_iq_manifest.main, lines 243-245: the limit ends the loop
PhysicsBreak ==
    /\ b_pc = "loop"
    /\ b_script = "physics"
    /\ b_pos <= Len(b_records)
    /\ b_records[b_pos].kind \in {"ok", "no_video"}
    /\ LimitReached(b_limit, b_considered + 1)
    /\ b_considered' = b_considered + 1
    /\ b_pc' = "done"
    /\ UNCHANGED <<b_script, b_records, b_limit, b_pos, b_seen, b_rows, b_skipped>>
    /\ UNCHANGED nonBuilderVars

\* build_physics_iq_manifest.main, lines 243-261: no video is found for the row
PhysicsSkipNoVideo ==
    /\ b_pc = "loop"
    /\ b_script = "physics"
    /\ b_pos <= Len(b_records)
    /\ b_records[b_pos].kind = "no_video"
    /\ ~LimitReached(b_limit, b_considered + 1)
    /\ b_considered' = b_considered + 1
    /\ b_skipped' = b_skipped + 1
    /\ b_pos' = b_pos + 1
    /\ UNCHANGED <<b_script, b_records, b_limit, b_seen, b_rows, b_pc>>
    /\ UNCHANGED nonBuilderVars

\* build_physics_iq_manifest.main, lines 243-285: the row is written
PhysicsWrite ==
    /\ b_pc = "loop"
    /\ b_script = "physics"
    /\ b_pos <= Len(b_records)
    /\ b_records[b_pos].kind = "ok"
    /\ ~LimitReached(b_limit, b_considered + 1)
    /\ b_considered' = b_considered + 1
    /\ LET raw_id == Strip(b_records[b_pos].raw_id)
           safe == _safe_id(IF raw_id # <<>> THEN PathStem(raw_id) ELSE <<>>, b_pos)
           sample_id == Disambiguate(safe, b_seen, b_pos)
       IN  /\ b_seen' = b_seen \cup {sample_id}
           /\ b_rows' = Append(b_rows, sample_id)
    /\ b_pos' = b_pos + 1
    /\ UNCHANGED <<b_script, b_records, b_limit, b_skipped, b_pc>>
    /\ UNCHANGED nonBuilderVars

\* build_wisa_manifest.main, lines 275-288: the limit cuts the index list
WisaStart ==
    /\ b_pc = "start"
    /\ b_script = "wisa"
    /\ b_records' = Truncate(b_records, b_limit)
    /\ b_pc' = "loop"
    /\ UNCHANGED <<b_script, b_limit, b_pos, b_seen, b_rows, b_skipped, b_considered>>
    /\ UNCHANGED nonBuilderVars

\* mutant of WisaSkip: the skipped record is not counted
WisaSkipUncounted ==
    /\ b_pc = "loop"
    /\ b_script = "wisa"
    /\ b_pos <= Len(b_records)
    /\ b_records[b_pos].kind \in {"no_prompt", "no_video"}
    /\ b_seen' = b_seen \cup {Disambiguate(_safe_id_wisa(b_records[b_pos].raw_id, b_pos),
                                           b_seen, b_pos)}
    /\ b_pos' = b_pos + 1
    /\ UNCHANGED <<b_script, b_records, b_limit, b_rows, b_skipped, b_considered, b_pc>>
    /\ UNCHANGED nonBuilderVars

\* build_wisa_manifest.main, lines 291-318: the id is taken, the row is skipped
WisaSkip ==
    /\ b_pc = "loop"
    /\ b_script = "wisa"
    /\ b_pos <= Len(b_records)
    /\ b_records[b_pos].kind \in {"no_prompt", "no_video"}
    /\ LET safe == _safe_id_wisa(b_records[b_pos].raw_id, b_pos)
           sample_id == Disambiguate(safe, b_seen, b_pos)
       IN  b_seen' = b_seen \cup {sample_id}
    /\ b_skipped' = b_skipped + 1
    /\ b_pos' = b_pos + 1
    /\ UNCHANGED <<b_script, b_records, b_limit, b_rows, b_considered, b_pc>>
    /\ UNCHANGED nonBuilderVars

\* build_wisa_manifest.main, lines 291-326: the row is written
WisaWrite ==
    /\ b_pc = "loop"
    /\ b_script = "wisa"
    /\ b_pos <= Len(b_records)
    /\ b_records[b_pos].kind = "ok"
    /\ LET safe == _safe_id_wisa(b_records[b_pos].raw_id, b_pos)
           sample_id == Disambiguate(safe, b_seen, b_pos)
       IN  /\ b_seen' = b_seen \cup {sample_id}
           /\ b_rows' = Append(b_rows, sample_id)
    /\ b_pos' = b_pos + 1
    /\ UNCHANGED <<b_script, b_records, b_limit, b_skipped, b_considered, b_pc>>
    /\ UNCHANGED nonBuilderVars

\* either main: the loop has read every index, the counts are printed
BuilderLoopEnd ==
    /\ b_pc = "loop"
    /\ b_pos > Len(b_records)
    /\ b_pc' = "done"
    /\ UNCHANGED <<b_script, b_records, b_limit, b_pos, b_seen, b_rows, b_skipped,
                   b_considered>>
    /\ UNCHANGED nonBuilderVars

BuilderNext ==
    \/ PhysicsStart
    \/ PhysicsSkipEarly
    \/ PhysicsBreak
    \/ PhysicsSkipNoVideo
    \/ PhysicsWrite
    \/ WisaStart
    \/ WisaSkip
    \/ WisaWrite
    \/ BuilderLoopEnd

SpecBuilder == BuilderInit /\ [][BuilderNext]_vars

(***************************************************************************)
(* CSV manifest builder: _rank_match and _pick_best_match.                 *)
(* A path is the characters of its absolute string form.                   *)
(***************************************************************************)
\* sub in s
Contains(s, sub) ==
    \E i \in 1..(Len(s) - Len(sub) + 1) : SubSeq(s, i, i + Len(sub) - 1) = sub

\* len(path.parts) of an absolute path: the root and one part per component
PartsLen(path) == 1 + Cardinality({i \in 1..Len(path) : path[i] = "/"})

\* mutant of PrefRank: a path without preferred substring ranks first
PrefRankUnmatchedFirst(s, prefer_substrings) ==
    LET hits == {i \in 1..Len(prefer_substrings) :
                    prefer_substrings[i] # <<>> /\ Contains(s, Lower(prefer_substrings[i]))}
    IN  IF hits = {} THEN 0 ELSE 1 + (CHOOSE i \in hits : \A j \in hits : i <= j)

\* pref_rank: the 0-based index of the first preferred substring found in s,
\* len(prefer_substrings) when none is
PrefRank(s, prefer_substrings) ==
    LET hits == {i \in 1..Len(prefer_substrings) :
                    prefer_substrings[i] # <<>> /\ Contains(s, Lower(prefer_substrings[i]))}
    IN  IF hits = {} THEN Len(prefer_substrings)
        ELSE (CHOOSE i \in hits : \A j \in hits : i <= j) - 1

_rank_match(path, prefer_substrings, take_filter) ==
    LET s == Lower(path)
        take_rank == IF take_filter # <<>> /\ Contains(s, Lower(take_filter)) THEN 0 ELSE 1
    IN  <<take_rank, PrefRank(s, prefer_substrings), PartsLen(path), Len(s)>>

\* a < b for two rank tuples, as Python compares tuples
RankLess(a, b) ==
    \E i \in 1..4 : a[i] < b[i] /\ \A j \in 1..(i - 1) : a[j] = b[j]

\* sorted(matches, key=...)[0]: the first of the matches of smallest rank
_pick_best_match(matches, prefer_substrings, take_filter) ==
    IF matches = <<>> THEN <<>>
    ELSE LET rank(i) == _rank_match(matches[i], prefer_substrings, take_filter)
         IN  matches[CHOOSE i \in 1..Len(matches) :
                        /\ \A j \in 1..Len(matches) : ~RankLess(rank(j), rank(i))
                        /\ \A j \in 1..(i - 1) : RankLess(rank(i), rank(j))]

\* candidate paths the model draws from
MatchPaths ==
    { <<"/", "f", "u", "/", "a">>,
      <<"/", "s", "p", "/", "a">>,
      <<"/", "s", "p", "/", "T", "1", "/", "a">>,
      <<"/", "f", "u", "/", "t", "2", "/", "a">>,
      <<"/", "x", "/", "a">>,
      <<"/", "x", "y", "/", "a">> }

\* values of --prefer-path-substrings
PreferArgs == {<<<<"f", "u">>, <<"s", "p">>>>, <<<<"s", "p">>>>, <<>>}

\* values of --take-filter
TakeArgs == {<<>>, <<"t", "1">>, <<"T", "2">>}

RankInit ==
    /\ NonRankIdle
    /\ k_matches \in SeqsUpTo(MatchPaths, MaxMatches)
    /\ k_prefer \in PreferArgs
    /\ k_take \in TakeArgs
    /\ k_best = <<>>
    /\ k_pc = "lookup"

\* _resolve_video_path, lines 141-144: best = _pick_best_match(matches, ...)
PickBest ==
    /\ k_pc = "lookup"
    /\ k_best' = _pick_best_match(k_matches, k_prefer, k_take)
    /\ k_pc' = "picked"
    /\ UNCHANGED <<k_matches, k_prefer, k_take>>
    /\ UNCHANGED nonRankVars

RankNext == PickBest

SpecRank == RankInit /\ [][RankNext]_vars

(***************************************************************************)
(* _normalize_name applied to file names.  A name is built from tokens     *)
(* joined by one separator; the plain name is the same name without its    *)
(* noise tokens, optionally in upper case.                                 *)
(***************************************************************************)
NameWords ==
    { <<"b">>,
      <<"f", "u">>,
      <<"l", "l">> }

NameNoise ==
    { <<"t", "a", "k", "e", "1">>,
      <<"t", "a", "k", "e", "-", "2">>,
      <<"3", "0", "f", "p", "s">>,
      <<"f", "u", "l", "l", "-", "v", "i", "d", "e", "o", "s">>,
      <<"v", "i", "d", "e", "o">>,
      <<"1">> }

NameSeparators == {"_", "-", "."}

MP4 == <<".", "m", "p", "4">>

\* sep.join(parts)
RECURSIVE Join(_, _)
Join(parts, sep) ==
    IF parts = <<>> THEN <<>>
    ELSE IF Len(parts) = 1 THEN Head(parts)
    ELSE Head(parts) \o <<sep>> \o Join(Tail(parts), sep)

NoisyName(parts, sep) == Join(parts, sep) \o MP4

PlainName(parts, sep, upper) ==
    LET plain == Join(SelectSeq(parts, LAMBDA p : p \in NameWords), sep) \o MP4
    IN  IF upper THEN Upper(plain) ELSE plain

NormalizeInit ==
    /\ NonNormalizeIdle
    /\ n_parts \in SeqsUpTo(NameWords \cup NameNoise, MaxParts)
    /\ n_sep \in NameSeparators
    /\ n_upper \in BOOLEAN
    /\ n_key = <<>>
    /\ n_plain_key = <<>>
    /\ n_again = <<>>
    /\ n_pc = "names"

\* _build_indexes, line 92: the key of a file found under the search roots
NormalizeName ==
    /\ n_pc = "names"
    /\ n_key' = _normalize_name(NoisyName(n_parts, n_sep))
    /\ n_pc' = "noisy"
    /\ UNCHANGED <<n_parts, n_sep, n_upper, n_plain_key, n_again>>
    /\ UNCHANGED nonNormalizeVars

\* _resolve_video_path, line 147: the key of a name of descriptions.csv
NormalizePlain ==
    /\ n_pc = "noisy"
    /\ n_plain_key' = _normalize_name(PlainName(n_parts, n_sep, n_upper))
    /\ n_pc' = "both"
    /\ UNCHANGED <<n_parts, n_sep, n_upper, n_key, n_again>>
    /\ UNCHANGED nonNormalizeVars

\* _normalize_name applied to a key it returned
NormalizeAgain ==
    /\ n_pc = "both"
    /\ n_again' = _normalize_name(n_key)
    /\ n_pc' = "done"
    /\ UNCHANGED <<n_parts, n_sep, n_upper, n_key, n_plain_key>>
    /\ UNCHANGED nonNormalizeVars

NormalizeNext ==
    \/ NormalizeName
    \/ NormalizePlain
    \/ NormalizeAgain

SpecNormalize == NormalizeInit /\ [][NormalizeNext]_vars

(***************************************************************************)
(* Layout Preparer: _normalize_rows.                                       *)
(* A manifest row gives the raw text of its id, prompt, ground-truth and   *)
(* image fields; <<>> is a field that is absent or empty.                  *)
(***************************************************************************)
DEFAULT_TASKS == <<"t2v", "i2v">>

LAYOUT_MODELS == <<"wan22", "wan21">>

\* _pick_value: the stripped value, or None (here <<>>) when it is blank
_pick_value(value) == Strip(value)

\* the files on disk next to the input manifest
LayoutIsFile(path) == path \in {<<"gt.mp4">>, <<"img.png">>}

LayoutRow(id, prompt, gt, image) ==
    [sample_id |-> id, prompt |-> prompt, ground_truth_video |-> gt, image |-> image]

\* manifest rows the model draws from
LayoutRows ==
    { LayoutRow(<<"a">>, <<"p">>, <<"gt.mp4">>, <<"img.png">>),
      LayoutRow(<<" ", "a">>, <<"p">>, <<"gt.mp4">>, <<>>),
      LayoutRow(<<>>, <<"p">>, <<"gt.mp4">>, <<>>),
      LayoutRow(<<"a">>, <<" ">>, <<"gt.mp4">>, <<>>),
      LayoutRow(<<"b">>, <<"p">>, <<>>, <<>>),
      LayoutRow(<<"b">>, <<"p">>, <<"gone.mp4">>, <<>>),
      LayoutRow(<<"b">>, <<"p">>, <<"gt.mp4">>, <<"gone.png">>),
      LayoutRow(<<"b">>, <<"p">>, <<"gt.mp4">>, <<>>) }

Raised(kind, rows) == [kind |-> kind, rows |-> rows]

\* SampleRecord; image_src is <<>> for None
SampleRecord(sample_id, image_src, row_index) ==
    [sample_id |-> sample_id, image_src |-> image_src, row_index |-> row_index]

\* mutant of SeenIndex: no id is ever found in seen
SeenNever(seen, sample_id) == 0

\* mutant of SeenIndex: the id of the first row is not looked at
SeenExceptFirst(seen, sample_id) ==
    IF \E i \in 2..Len(seen) : seen[i] = sample_id
    THEN CHOOSE i \in 2..Len(seen) : seen[i] = sample_id
    ELSE 0

\* seen[sample_id], the row index of the id's first occurrence; 0 if not in seen
SeenIndex(seen, sample_id) ==
    IF \E i \in 1..Len(seen) : seen[i] = sample_id
    THEN CHOOSE i \in 1..Len(seen) :
            /\ seen[i] = sample_id
            /\ \A j \in 1..(i - 1) : seen[j] # sample_id
    ELSE 0

\* mutant of NormalizeFrom: a bad row is passed over, as the manifest builders do
NormalizeLenient(rows, index, seen, out) ==
    LET good == SelectSeq(rows, LAMBDA r :
                    /\ _pick_value(r.prompt) # <<>>
                    /\ LayoutIsFile(_pick_value(r.ground_truth_video))
                    /\ _pick_value(r.image) # <<>> => LayoutIsFile(_pick_value(r.image)))
    IN  [error |-> NoError,
         records |-> [i \in 1..Len(good) |->
                         SampleRecord(_safe_sample_id(_pick_value(good[i].sample_id), i),
                                      _pick_value(good[i].image), i)]]

\* the loop of _normalize_rows from row index on; seen holds the ids of the
\* rows before index, by row
RECURSIVE NormalizeFrom(_, _, _, _)
NormalizeFrom(rows, index, seen, out) ==
    IF index > Len(rows) THEN [error |-> NoError, records |-> out]
    ELSE LET row == rows[index]
             sample_id == _safe_sample_id(_pick_value(row.sample_id), index)
             first == SeenIndex(seen, sample_id)
             prompt == _pick_value(row.prompt)
             gt_raw == _pick_value(row.ground_truth_video)
             image_raw == _pick_value(row.image)
             failed(kind, named) == [error |-> Raised(kind, named), records |-> <<>>]
         IN  IF first # 0 THEN failed("duplicate", <<first, index>>)
             ELSE IF prompt = <<>> THEN failed("missing_prompt", <<index>>)
             ELSE IF gt_raw = <<>> THEN failed("missing_gt", <<index>>)
             ELSE IF ~LayoutIsFile(gt_raw) THEN failed("gt_not_found", <<index>>)
             ELSE IF image_raw # <<>> /\ ~LayoutIsFile(image_raw)
                  THEN failed("image_not_found", <<index>>)
             ELSE NormalizeFrom(rows, index + 1, Append(seen, sample_id),
                                Append(out, SampleRecord(sample_id, image_raw, index)))

_normalize_rows(rows) == NormalizeFrom(rows, 1, <<>>, <<>>)

(***************************************************************************)
(* Layout Preparer: what a run creates under the run root.                 *)
(* A path is the tree it lies in ("datasets", or a model and a task), the  *)
(* sample it belongs to (<<>> for none) and its name.                      *)
(***************************************************************************)
PathOf(model, task, sample, name) ==
    [model |-> model, task |-> task, sample |-> sample, name |-> name]

\* _prepare_shared_assets: what is created for a record before its image
SharedBase(record) ==
    { PathOf("datasets", "", record.sample_id, "dir"),
      PathOf("datasets", "", record.sample_id, "ground_truth"),
      PathOf("datasets", "", record.sample_id, "prompt.txt") }

\* mutant of HasImageDst: every sample is taken to have an image
HasImageDstAlways(record, extract) == TRUE

\* image_dst is not None: the image is supplied, or the first frame is extracted
HasImageDst(record, extract) == record.image_src # <<>> \/ extract

\* _prepare_shared_assets: everything created for a record that raises nothing
SharedPaths(record, extract) ==
    SharedBase(record)
    \cup (IF HasImageDst(record, extract)
          THEN {PathOf("datasets", "", record.sample_id, "input_image")} ELSE {})
    \cup {PathOf("datasets", "", record.sample_id, "sample.json")}

\* SampleAssets; image_path is FALSE for None
SampleAssets(record, extract) ==
    [sample_id |-> record.sample_id, image_path |-> HasImageDst(record, extract)]

\* for model in models: for task in tasks
LayoutPairs(ms, ts) ==
    [i \in 1..(Len(ms) * Len(ts)) |->
        <<ms[((i - 1) \div Len(ts)) + 1], ts[((i - 1) % Len(ts)) + 1]>>]

\* mutant of InTaskManifest: the i2v manifest takes every sample
InEveryManifest(task, sample) == TRUE

\* _build_model_task_layout: the sample gets a row in the manifest of the task
InTaskManifest(task, sample) == task # "i2v" \/ sample.image_path

SampleIds(samples) == [i \in 1..Len(samples) |-> samples[i].sample_id]

\* manifest_rows of one task
ManifestRows(task, assets) ==
    SampleIds(SelectSeq(assets, LAMBDA sample : InTaskManifest(task, sample)))

\* skipped_i2v of one task
SkippedI2v(task, assets) ==
    SampleIds(SelectSeq(assets, LAMBDA sample : task = "i2v" /\ ~sample.image_path))

\* _build_model_task_layout: everything created for one (model, task)
TaskPaths(model, task, assets) ==
    {PathOf(model, task, <<>>, name) :
        name \in {"inputs", "outputs", "logs", "ground_truth", "inputs/prompts",
                  "inputs/manifest.jsonl", "layout_summary.json"}}
    \cup (IF task = "i2v" THEN {PathOf(model, task, <<>>, "inputs/images")} ELSE {})
    \cup UNION {{PathOf(model, task, assets[i].sample_id, "prompt"),
                 PathOf(model, task, assets[i].sample_id, "ground_truth")} :
                    i \in 1..Len(assets)}
    \cup {PathOf(model, task, assets[i].sample_id, "image") :
            i \in {j \in 1..Len(assets) : task = "i2v" /\ assets[j].image_path}}

\* values of --tasks
TaskArgs == {<<"t2v", "i2v">>, <<"i2v">>, <<"t2v", "depth">>, <<"depth">>}

unsupported_tasks(ts) == SelectSeq(ts, LAMBDA task : task \notin SetOf(DEFAULT_TASKS))

(***************************************************************************)
(* Layout Preparer: main.  The input manifest exists and the run root,     *)
(* if it exists, is empty.                                                 *)
(***************************************************************************)
LayoutInit ==
    /\ NonLayoutIdle
    /\ l_rows \in SeqsUpTo(LayoutRows, MaxLayoutRows)
    /\ l_tasks \in TaskArgs
    /\ l_extract \in BOOLEAN
    /\ l_strict \in BOOLEAN
    /\ l_root_exists \in BOOLEAN
    /\ l_root_created = FALSE
    /\ l_fs = {}
    /\ l_records = <<>>
    /\ l_todo = <<>>
    /\ l_assets = <<>>
    /\ l_pairs = <<>>
    /\ l_manifests = <<>>
    /\ l_skipped = <<>>
    /\ l_error = NoError
    /\ l_pc = "start"

\* main, lines 399-405: run_root.mkdir(parents=True, exist_ok=True)
MkRunRoot ==
    /\ l_pc = "start"
    /\ l_root_exists' = TRUE
    /\ l_root_created' = ~l_root_exists
    /\ l_pc' = "args"
    /\ UNCHANGED <<l_rows, l_tasks, l_extract, l_strict, l_fs, l_records, l_todo, l_assets,
                   l_pairs, l_manifests, l_skipped, l_error>>
    /\ UNCHANGED nonLayoutVars

\* main, lines 407-416: an unsupported task is a ValueError
RejectTasks ==
    /\ l_pc = "args"
    /\ unsupported_tasks(l_tasks) # <<>>
    /\ l_error' = Raised("unsupported_tasks", <<>>)
    /\ l_pc' = "failed"
    /\ UNCHANGED <<l_rows, l_tasks, l_extract, l_strict, l_root_exists, l_root_created, l_fs,
                   l_records, l_todo, l_assets, l_pairs, l_manifests, l_skipped>>
    /\ UNCHANGED nonLayoutVars

\* main, lines 418-419: _normalize_rows raises
NormalizeFail ==
    /\ l_pc = "args"
    /\ unsupported_tasks(l_tasks) = <<>>
    /\ _normalize_rows(l_rows).error # NoError
    /\ l_error' = _normalize_rows(l_rows).error
    /\ l_pc' = "failed"
    /\ UNCHANGED <<l_rows, l_tasks, l_extract, l_strict, l_root_exists, l_root_created, l_fs,
                   l_records, l_todo, l_assets, l_pairs, l_manifests, l_skipped>>
    /\ UNCHANGED nonLayoutVars

\* main, lines 418-421: the manifest has no rows
NormalizeEmpty ==
    /\ l_pc = "args"
    /\ unsupported_tasks(l_tasks) = <<>>
    /\ _normalize_rows(l_rows).error = NoError
    /\ _normalize_rows(l_rows).records = <<>>
    /\ l_error' = Raised("no_valid_rows", <<>>)
    /\ l_pc' = "failed"
    /\ UNCHANGED <<l_rows, l_tasks, l_extract, l_strict, l_root_exists, l_root_created, l_fs,
                   l_records, l_todo, l_assets, l_pairs, l_manifests, l_skipped>>
    /\ UNCHANGED nonLayoutVars

\* main, lines 418-424: _normalize_rows returns the records
NormalizeOk ==
    /\ l_pc = "args"
    /\ unsupported_tasks(l_tasks) = <<>>
    /\ _normalize_rows(l_rows).error = NoError
    /\ _normalize_rows(l_rows).records # <<>>
    /\ l_records' = _normalize_rows(l_rows).records
    /\ l_todo' = _normalize_rows(l_rows).records
    /\ l_pc' = "assets"
    /\ UNCHANGED <<l_rows, l_tasks, l_extract, l_strict, l_root_exists, l_root_created, l_fs,
                   l_assets, l_pairs, l_manifests, l_skipped, l_error>>
    /\ UNCHANGED nonLayoutVars

\* _prepare_shared_assets, lines 220-267: the assets of one record
PrepareSample ==
    /\ l_pc = "assets"
    /\ l_todo # <<>>
    /\ HasImageDst(Head(l_todo), l_extract) \/ ~l_strict
    /\ l_fs' = l_fs \cup SharedPaths(Head(l_todo), l_extract)
    /\ l_assets' = Append(l_assets, SampleAssets(Head(l_todo), l_extract))
    /\ l_todo' = Tail(l_todo)
    /\ UNCHANGED <<l_rows, l_tasks, l_extract, l_strict, l_root_exists, l_root_created,
                   l_records, l_pairs, l_manifests, l_skipped, l_error, l_pc>>
    /\ UNCHANGED nonLayoutVars

\* _prepare_shared_assets, lines 220-243: no image, no extraction, strict mode
PrepareFailNoImage ==
    /\ l_pc = "assets"
    /\ l_todo # <<>>
    /\ ~HasImageDst(Head(l_todo), l_extract)
    /\ l_strict
    /\ l_fs' = l_fs \cup SharedBase(Head(l_todo))
    /\ l_error' = Raised("no_image", <<Head(l_todo).row_index>>)
    /\ l_pc' = "failed"
    /\ UNCHANGED <<l_rows, l_tasks, l_extract, l_strict, l_root_exists, l_root_created,
                   l_records, l_todo, l_assets, l_pairs, l_manifests, l_skipped>>
    /\ UNCHANGED nonLayoutVars

\* _prepare_shared_assets, line 238 (_extract_first_frame): ffmpeg fails
ExtractFail ==
    /\ l_pc = "assets"
    /\ l_todo # <<>>
    /\ Head(l_todo).image_src = <<>>
    /\ l_extract
    /\ l_fs' = l_fs \cup SharedBase(Head(l_todo))
    /\ l_error' = Raised("ffmpeg", <<Head(l_todo).row_index>>)
    /\ l_pc' = "failed"
    /\ UNCHANGED <<l_rows, l_tasks, l_extract, l_strict, l_root_exists, l_root_created,
                   l_records, l_todo, l_assets, l_pairs, l_manifests, l_skipped>>
    /\ UNCHANGED nonLayoutVars

\* main, lines 426-436: _prepare_shared_assets returns
AssetsDone ==
    /\ l_pc = "assets"
    /\ l_todo = <<>>
    /\ l_pairs' = LayoutPairs(LAYOUT_MODELS, l_tasks)
    /\ l_pc' = "layout"
    /\ UNCHANGED <<l_rows, l_tasks, l_extract, l_strict, l_root_exists, l_root_created, l_fs,
                   l_records, l_todo, l_assets, l_manifests, l_skipped, l_error>>
    /\ UNCHANGED nonLayoutVars

\* _build_model_task_layout, lines 286-342: the layout of one (model, task)
BuildTask ==
    /\ l_pc = "layout"
    /\ l_pairs # <<>>
    /\ LET model == Head(l_pairs)[1]
           task == Head(l_pairs)[2]
       IN  /\ l_fs' = l_fs \cup TaskPaths(model, task, l_assets)
           /\ l_manifests' = (Head(l_pairs) :> ManifestRows(task, l_assets)) @@ l_manifests
           /\ l_skipped' = (Head(l_pairs) :> SkippedI2v(task, l_assets)) @@ l_skipped
    /\ l_pairs' = Tail(l_pairs)
    /\ UNCHANGED <<l_rows, l_tasks, l_extract, l_strict, l_root_exists, l_root_created,
                   l_records, l_todo, l_assets, l_error, l_pc>>
    /\ UNCHANGED nonLayoutVars

\* main, lines 447-462: the run summary is written, main returns 0
LayoutDone ==
    /\ l_pc = "layout"
    /\ l_pairs = <<>>
    /\ l_fs' = l_fs \cup {PathOf("", "", <<>>, "layout_summary.json")}
    /\ l_pc' = "done"
    /\ UNCHANGED <<l_rows, l_tasks, l_extract, l_strict, l_root_exists, l_root_created,
                   l_records, l_todo, l_assets, l_pairs, l_manifests, l_skipped, l_error>>
    /\ UNCHANGED nonLayoutVars

LayoutNext ==
    \/ MkRunRoot
    \/ RejectTasks
    \/ NormalizeFail
    \/ NormalizeEmpty
    \/ NormalizeOk
    \/ PrepareSample
    \/ PrepareFailNoImage
    \/ ExtractFail
    \/ AssetsDone
    \/ BuildTask
    \/ LayoutDone

SpecLayout == LayoutInit /\ [][LayoutNext]_vars

(***************************************************************************)
(* Layout Preparer: _materialize_file on one destination path.             *)
(* A directory entry is absent, a directory, a file with the content of    *)
(* "of" (shared: it is a hard link of "of"), or a symbolic link to "of".   *)
(* "s1" and "s2" are source files, "old" is another file, "d" is a         *)
(* directory and nothing is at "gone".                                     *)
(***************************************************************************)
DirEntry(kind, of, shared) == [kind |-> kind, of |-> of, shared |-> shared]

\* what may be at dst before the first call
DstEntries ==
    { Absent,
      DirEntry("file", "old", FALSE),
      DirEntry("dir", "", FALSE),
      DirEntry("symlink", "old", FALSE),
      DirEntry("symlink", "d", FALSE),
      DirEntry("symlink", "gone", FALSE) }

PlaceSources == {"s1", "s2"}

\* --materialize-mode, and a value outside its choices
PlaceModes == {"symlink", "hardlink", "copy", "move"}

\* Path.exists(): a symbolic link is followed
PathExists(entry) ==
    \/ entry.kind \in {"file", "dir"}
    \/ entry.kind = "symlink" /\ entry.of # "gone"

\* Path.is_symlink()
PathIsSymlink(entry) == entry.kind = "symlink"

\* Path.is_dir(): a symbolic link is followed
PathIsDir(entry) ==
    \/ entry.kind = "dir"
    \/ entry.kind = "symlink" /\ entry.of = "d"

\* dst after dst.symlink_to(src), os.link(src, dst) or shutil.copy2(src, dst)
Placed(src, mode) ==
    IF mode = "symlink" THEN DirEntry("symlink", src, FALSE)
    ELSE IF mode = "hardlink" THEN DirEntry("file", src, TRUE)
    ELSE DirEntry("file", src, FALSE)

PlaceInit ==
    /\ NonPlaceIdle
    /\ mt_dst \in DstEntries
    /\ mt_before = Absent
    /\ mt_src = ""
    /\ mt_mode = ""
    /\ mt_error = "none"
    /\ mt_calls = 0

\* _materialize_file, lines 158-170: dst is unlinked if it is there, src is placed
Materialize ==
    /\ mt_calls < MaxPlacements
    /\ ~((PathExists(mt_dst) \/ PathIsSymlink(mt_dst)) /\ PathIsDir(mt_dst))
    /\ \E src \in PlaceSources, mode \in PlaceModes \ {"move"} :
          /\ mt_src' = src
          /\ mt_mode' = mode
          /\ mt_dst' = Placed(src, mode)
    /\ mt_before' = mt_dst
    /\ mt_error' = "none"
    /\ mt_calls' = mt_calls + 1
    /\ UNCHANGED nonPlaceVars

\* _materialize_file, lines 160-162: IsADirectoryError
MaterializeOntoDirectory ==
    /\ mt_calls < MaxPlacements
    /\ (PathExists(mt_dst) \/ PathIsSymlink(mt_dst)) /\ PathIsDir(mt_dst)
    /\ \E src \in PlaceSources, mode \in PlaceModes :
          /\ mt_src' = src
          /\ mt_mode' = mode
    /\ mt_before' = mt_dst
    /\ mt_error' = "IsADirectoryError"
    /\ mt_calls' = mt_calls + 1
    /\ UNCHANGED mt_dst
    /\ UNCHANGED nonPlaceVars

\* _materialize_file, lines 160-172: dst is unlinked, then the mode is refused
MaterializeUnsupported ==
    /\ mt_calls < MaxPlacements
    /\ ~((PathExists(mt_dst) \/ PathIsSymlink(mt_dst)) /\ PathIsDir(mt_dst))
    /\ \E src \in PlaceSources : mt_src' = src
    /\ mt_mode' = "move"
    /\ mt_dst' = Absent
    /\ mt_before' = mt_dst
    /\ mt_error' = "ValueError"
    /\ mt_calls' = mt_calls + 1
    /\ UNCHANGED nonPlaceVars

PlaceNext ==
    \/ Materialize
    \/ MaterializeOntoDirectory
    \/ MaterializeUnsupported

SpecPlace == PlaceInit /\ [][PlaceNext]_vars

(***************************************************************************)
(* Gallery Renderer: _link_media for one source path.                      *)
(* "t" is the path of src relative to media_dir; a link to "t" resolves to *)
(* src.  "old", "d" and "gone" are as for _materialize_file.               *)
(***************************************************************************)
\* what may be at dst before the first call
MediaEntries ==
    { Absent,
      DirEntry("file", "old", FALSE),
      DirEntry("dir", "", FALSE),
      DirEntry("symlink", "t", FALSE),
      DirEntry("symlink", "old", FALSE),
      DirEntry("symlink", "d", FALSE),
      DirEntry("symlink", "gone", FALSE) }

\* what a call finds at src: None, a regular file, nothing, a directory
MediaSources == {"none", "file", "missing", "dir"}

\* os.readlink(dst); "" stands for None, after OSError
ReadLink(entry) == IF entry.kind = "symlink" THEN entry.of ELSE ""

\* lines 136-144: dst is there and does not link to target
MustUnlink(entry) == (PathExists(entry) \/ PathIsSymlink(entry)) /\ ReadLink(entry) # "t"

MediaInit ==
    /\ NonMediaIdle
    /\ lm_dst \in MediaEntries
    /\ lm_media_dir \in BOOLEAN
    /\ lm_dst # Absent => lm_media_dir
    /\ lm_before = <<Absent, FALSE>>
    /\ lm_src = ""
    /\ lm_ref = FALSE
    /\ lm_unlinked = FALSE
    /\ lm_linked = FALSE
    /\ lm_calls = 0

\* _link_media, lines 128-131: no source, or not a file
LinkMediaMissing ==
    /\ lm_calls < MaxLinkCalls
    /\ \E src \in MediaSources \ {"file"} : lm_src' = src
    /\ lm_before' = <<lm_dst, lm_media_dir>>
    /\ lm_ref' = FALSE
    /\ lm_unlinked' = FALSE
    /\ lm_linked' = FALSE
    /\ lm_calls' = lm_calls + 1
    /\ UNCHANGED <<lm_dst, lm_media_dir>>
    /\ UNCHANGED nonMediaVars

\* _link_media, lines 133-138: dst is a directory
LinkMediaOntoDirectory ==
    /\ lm_calls < MaxLinkCalls
    /\ (PathExists(lm_dst) \/ PathIsSymlink(lm_dst)) /\ PathIsDir(lm_dst)
    /\ lm_src' = "file"
    /\ lm_media_dir' = TRUE
    /\ lm_before' = <<lm_dst, lm_media_dir>>
    /\ lm_ref' = FALSE
    /\ lm_unlinked' = FALSE
    /\ lm_linked' = FALSE
    /\ lm_calls' = lm_calls + 1
    /\ UNCHANGED lm_dst
    /\ UNCHANGED nonMediaVars

\* _link_media, lines 133-147: the link is made, replaced or left as it is
LinkMedia ==
    /\ lm_calls < MaxLinkCalls
    /\ ~((PathExists(lm_dst) \/ PathIsSymlink(lm_dst)) /\ PathIsDir(lm_dst))
    /\ lm_src' = "file"
    /\ lm_media_dir' = TRUE
    /\ LET unlinked == IF MustUnlink(lm_dst) THEN Absent ELSE lm_dst
       IN  /\ lm_unlinked' = MustUnlink(lm_dst)
           /\ lm_linked' = ~PathExists(unlinked)
           /\ lm_dst' = IF ~PathExists(unlinked) THEN DirEntry("symlink", "t", FALSE)
                        ELSE unlinked
    /\ lm_before' = <<lm_dst, lm_media_dir>>
    /\ lm_ref' = TRUE
    /\ lm_calls' = lm_calls + 1
    /\ UNCHANGED nonMediaVars

MediaNext ==
    \/ LinkMediaMissing
    \/ LinkMediaOntoDirectory
    \/ LinkMedia

SpecMedia == MediaInit /\ [][MediaNext]_vars

(***************************************************************************)
(* Claims about the Layout Subsetter.                                      *)
(***************************************************************************)
\* the group key as the specification words it: the leading "<digits>_" prefix
\* stripped, every perspective marker replaced by "_"
StatedGroupKey(sid) == PERSPECTIVE_RE_sub(LEADING_INDEX_RE_sub(sid))

StatedGroups(ids) == {StatedGroupKey(ids[i]) : i \in 1..Len(ids)}

\* C1: the selection has at most max_per_dataset ids when max_per_dataset > 0,
\* and with max_per_dataset = 0 it is not truncated: one id per group.
C1_SelectionWithinCap ==
    pc = "selected" =>
        /\ max_per_dataset > 0 => Len(selected_ids) <= max_per_dataset
        /\ max_per_dataset = 0 =>
              Len(selected_ids) = Cardinality(StatedGroups(ordered_ids))

\* the reference holds more groups than the cap allows, and the cap cut the selection
C1_Witness ==
    /\ pc = "selected"
    /\ max_per_dataset > 0
    /\ Cardinality(StatedGroups(ordered_ids)) > max_per_dataset
    /\ Len(selected_ids) = max_per_dataset

\* C2: no two ids of the selection have the same group key; two samples that
\* differ only by perspective are never both selected.
C2_OnePerGroup ==
    pc = "selected" =>
        \A i, j \in 1..Len(selected_ids) :
            i # j => StatedGroupKey(selected_ids[i]) # StatedGroupKey(selected_ids[j])

\* the reference holds the left and the center sample of one scene and a sample
\* of another group; one of the two perspectives is selected, not both
C2_Witness ==
    /\ pc = "selected"
    /\ {idLeft, idCenter} \subseteq SetOf(ordered_ids)
    /\ Cardinality(SetOf(selected_ids) \cap {idLeft, idCenter}) = 1
    /\ Len(selected_ids) = 2

\* C3 (as stated): after two non-dry runs with the same arguments the backup of
\* every rewritten manifest holds every line the manifest had before the first
\* run, in the original order.
C3_BackupIsOriginal ==
    (runs = 2 /\ pc = "idle" /\ ~dry_run) =>
        \A k \in Keys : backup[k].exists => backup[k].lines = orig[k].lines

\* C4: a second run with the same arguments leaves every manifest as the first
\* run left it, also when the reference manifest is among the rewritten ones.
C4_SecondRunChangesNothing ==
    (runs = 2 /\ pc = "idle") => manifest = after_first

\* two non-dry runs that rewrote the reference manifest itself, the first of
\* which removed rows from it
C4_Witness ==
    /\ runs = 2
    /\ pc = "idle"
    /\ ~dry_run
    /\ backup[RefKey].exists
    /\ Len(after_first[RefKey].lines) < Len(_read_jsonl(orig[RefKey].lines))
    /\ Len(after_first[RefKey].lines) > 0
    /\ manifest = after_first

\* the lines of a manifest whose sample_id is in the selected set, in file order
KeptLines(lines, selected) ==
    SelectSeq(lines, LAMBDA line : Strip(line) \in SetOf(selected))

\* the (model, task) pairs requested by --models and --tasks
Requested == {k \in Keys : k[1] \in SetOf(models)}

\* the manifests as they were when the run that just returned started
BeforeRun == IF runs = 1 THEN orig ELSE after_first

C16_DryRunWritesNothing ==
    (dry_run /\ pc # "off") =>
        /\ manifest = orig
        /\ \A k \in Keys : ~backup[k].exists

\* a dry run over both models returned; it visited two existing manifests and
\* its selection leaves out rows of the reference manifest
C16_Witness ==
    /\ dry_run
    /\ pc = "idle"
    /\ runs >= 1
    /\ models = DEFAULT_MODELS
    /\ \A k \in Keys : manifest[k].exists
    /\ Len(selected_ids) >= 1
    /\ Len(selected_ids) < Len(manifest[RefKey].lines)

\* C20: in every step of every sequence of non-dry runs, a backup that exists is
\* left as it is, and a manifest is only rewritten with its backup in place.
C20_BackupWrittenOnce ==
    [][\A k \in Keys :
          /\ backup[k].exists => backup'[k] = backup[k]
          /\ (manifest'[k] # manifest[k] \/ (pc = "loop" /\ todo # <<>> /\ Head(todo) = k
                                              /\ manifest[k].exists))
                => backup'[k].exists]_vars

\* two runs with different arguments returned: the second rewrote the reference
\* manifest again, and its backup is still the one the first run wrote
C20_Witness ==
    /\ pc = "idle"
    /\ runs = 2
    /\ backup[RefKey].exists
    /\ backup[RefKey].lines = orig[RefKey].lines
    /\ manifest[RefKey] # after_first[RefKey]
    /\ after_first[RefKey] # orig[RefKey]

\* the perspective labels a sample id carries
StatedPerspectives(sid) ==
    {AtomPerspective(sid[i]) : i \in {j \in 1..Len(sid) : sid[j] \in PerspectiveAtoms}}

\* the ids of the reference that fall into group g
GroupMembers(ids, g) == {sid \in SetOf(ids) : StatedGroupKey(sid) = g}

\* the groups of the reference that hold only perspective samples
PerspectiveGroups(ids) ==
    {g \in StatedGroups(ids) : \A sid \in GroupMembers(ids, g) : StatedPerspectives(sid) # {}}

PresentPerspectives(ids, g) == UNION {StatedPerspectives(sid) : sid \in GroupMembers(ids, g)}

\* the first perspective of pref that is present, else the lexicographically
\* smallest present label (center < left < right)
StatedPerspective(present, pref) ==
    IF \E i \in 1..Len(pref) : pref[i] \in present
    THEN pref[CHOOSE i \in 1..Len(pref) :
                 /\ pref[i] \in present
                 /\ \A j \in 1..(i - 1) : pref[j] \notin present]
    ELSE IF "center" \in present THEN "center"
    ELSE IF "left" \in present THEN "left"
    ELSE "right"

\* C12: of a group that holds only perspective samples, the selected sample is
\* the one of the first perspective of the preference order that is present,
\* else the one of the lexicographically smallest present label; without a cap
\* every such group gets exactly that sample.
C12_PreferredPerspectiveChosen ==
    pc = "selected" =>
        \A g \in PerspectiveGroups(ordered_ids) :
            LET want == StatedPerspective(PresentPerspectives(ordered_ids, g), preference)
                sel == {sid \in SetOf(selected_ids) : StatedGroupKey(sid) = g}
            IN  /\ \A sid \in sel : StatedPerspectives(sid) = {want}
                /\ max_per_dataset = 0 => Cardinality(sel) = 1

\* a full left/center/right triplet with preference center,left,right: exactly
\* the center sample was selected
C12_Witness ==
    /\ pc = "selected"
    /\ SetOf(ordered_ids) = {idLeft, idCenter, idRight}
    /\ preference = <<"center", "left", "right">>
    /\ selected_ids = <<idCenter>>

\* C26 (as stated): with no cap every sample of the reference whose id has no
\* perspective marker is selected, also when two such ids differ only in their
\* leading index.
C26_EveryUnmarkedSampleSelected ==
    (pc = "selected" /\ max_per_dataset = 0) =>
        \A i \in 1..Len(ordered_ids) :
            StatedPerspectives(ordered_ids[i]) = {} => ordered_ids[i] \in SetOf(selected_ids)

(***************************************************************************)
(* Claims about the Gallery Renderer.                                      *)
(***************************************************************************)
GalleryIdsOf(m) ==
    {Strip(g_manifests[m][i].sample_id) : i \in 1..Len(g_manifests[m])} \ {<<>>}

\* the non-empty values the rows of all manifests give a field of a sample
GivenValues(sid, field) ==
    UNION {{Strip(g_manifests[m][i][field]) :
               i \in {j \in 1..Len(g_manifests[m]) :
                         Strip(g_manifests[m][j].sample_id) = sid}} :
           m \in DOMAIN g_manifests} \ {<<>>}

\* C6 (as stated): two models' manifests with rows for the same keys give, in
\* either processing order, the same entries: same keys, prompt,
\* ground_truth_video, image_path and per-model outputs.
C6_EitherOrderSameEntries ==
    (/\ g_pc = "done"
     /\ GalleryIdsOf("wan22") = GalleryIdsOf("wan21")
     /\ GalleryIdsOf("wan22") # {}) => entries = entries_first

\* C6 (amended): either order gives the same keys and the same per-model
\* outputs; prompt, ground_truth_video and image_path are the same in both
\* orders wherever the rows of a key give at most one non-empty value.
C6_EitherOrderSameKeysAndOutputs ==
    g_pc = "done" =>
        /\ DOMAIN entries = DOMAIN entries_first
        /\ \A k \in DOMAIN entries :
              /\ entries[k].outputs = entries_first[k].outputs
              /\ \A field \in {"prompt", "ground_truth_video", "image_path"} :
                    Cardinality(GivenValues(k[3], field)) <= 1 =>
                        entries[k][field] = entries_first[k][field]

\* both models have rows for sample "a", each with an existing output, and the
\* two builds differ in the prompt they kept
C6_Witness ==
    /\ g_pc = "done"
    /\ <<"physics_iq", "t2v", <<"a">>>> \in DOMAIN entries
    /\ \A m \in DOMAIN g_manifests :
          entries[<<"physics_iq", "t2v", <<"a">>>>].outputs[m] # NoPath
    /\ entries[<<"physics_iq", "t2v", <<"a">>>>].prompt
          # entries_first[<<"physics_iq", "t2v", <<"a">>>>].prompt

\* the rows read so far in the current build, in reading order
RowsRead ==
    LET all == Discover(g_models, g_manifests)
    IN  SubSeq(all, 1, Len(all) - Len(g_queue))

\* the output_video values read so far for a key in the manifest of a model
CandidatesSeen(key, m) ==
    LET items == SelectSeq(RowsRead, LAMBDA it :
                    it.model = m /\ Strip(it.row.sample_id) = key[3])
    IN  [i \in 1..Len(items) |-> Strip(items[i].row.output_video)]

\* the candidate is a path to an existing file of more than 0 bytes
Admissible(path) == path # <<>> /\ IsFile(path) /\ StSize(path) > 0

\* the admissible candidate of greatest modification time, the earliest seen
\* on a tie; NoPath when none is admissible
MostRecent(cands) ==
    LET ok == {i \in 1..Len(cands) : Admissible(cands[i])}
    IN  IF ok = {} THEN NoPath
        ELSE cands[CHOOSE i \in ok :
                      /\ \A j \in ok : StMtime(cands[j]) <= StMtime(cands[i])
                      /\ \A j \in ok : j < i => StMtime(cands[j]) < StMtime(cands[i])]

\* C24: when a build has read every manifest, the output tracked for an entry
\* and a model is the most recent admissible candidate read for them, the
\* earliest on a tie, and absent when none was admissible; so a missing, empty
\* or absent candidate has not replaced a tracked output.
C24_TrackedOutputIsMostRecent ==
    (g_pc \in {"collect", "collect_again", "done"} /\ g_queue = <<>>) =>
        \A key \in DOMAIN entries : \A m \in SetOf(g_models) :
            entries[key].outputs[m] = MostRecent(CandidatesSeen(key, m))

\* one model's manifest gives o2 and then o3 for sample a, files of the same
\* modification time: o2, seen first, is tracked when the build has ended
C24_Witness ==
    /\ g_pc = "done"
    /\ CandidatesSeen(<<"physics_iq", "t2v", <<"a">>>>, "wan22") = <<<<"o2">>, <<"o3">>>>
    /\ entries[<<"physics_iq", "t2v", <<"a">>>>].outputs["wan22"] = <<"o2">>

\* the rows that the manifest of a requested model holds for a key
RowsFor(key, m) ==
    {g_manifests[m][i] : i \in {j \in 1..Len(g_manifests[m]) :
                                    Strip(g_manifests[m][j].sample_id) = key[3]}}

\* some requested model has an existing output file for the key
HasExistingOutput(key) ==
    \E m \in SetOf(g_models) : \E row \in RowsFor(key, m) : IsFile(Strip(row.output_video))

\* some requested model has an existing output file of more than 0 bytes
HasNonEmptyOutput(key) ==
    \E m \in SetOf(g_models) : \E row \in RowsFor(key, m) :
        IsFile(Strip(row.output_video)) /\ StSize(Strip(row.output_video)) > 0

\* position of the key's entry among the sorted entries
RankOf(key) ==
    Cardinality({k \in DOMAIN entries :
                    \E i, j \in 1..Len(GalleryIdOrder) :
                        i <= j /\ GalleryIdOrder[i] = k[3] /\ GalleryIdOrder[j] = key[3]})

\* C13 (as stated): without --include-missing an entry is rendered if and only
\* if some requested model has an existing output file for it, and the count
\* of rendered rows is the number of rows rendered.
C13_RenderedIffOutputExists ==
    (r_pc = "done" /\ ~r_include_missing) =>
        /\ \A key \in DOMAIN entries : key \in SetOf(r_written) <=> HasExistingOutput(key)
        /\ rows_written = Len(r_written)

\* C13 (amended): without --include-missing an entry is rendered if and only
\* if it is among the first --max-rows entries in sorted order (all of them
\* when --max-rows is 0) and some requested model has an existing output file
\* of more than 0 bytes for it; no entry is rendered twice and the count of
\* rendered rows is the number of rows rendered.
C13_RenderedIffNonEmptyOutputWithinCap ==
    (r_pc = "done" /\ ~r_include_missing) =>
        /\ \A key \in DOMAIN entries :
              key \in SetOf(r_written) <=>
                  /\ HasNonEmptyOutput(key)
                  /\ r_max_rows = 0 \/ RankOf(key) <= r_max_rows
        /\ rows_written = Len(r_written)
        /\ rows_written = Cardinality(SetOf(r_written))
        /\ rows_with_any = rows_written

\* a build without --include-missing and without cap: of two entries one has a
\* model output and was rendered, the other has none and was left out
C13_Witness ==
    /\ r_pc = "done"
    /\ ~r_include_missing
    /\ r_max_rows = 0
    /\ Cardinality(DOMAIN entries) = 2
    /\ rows_written = 1
    /\ Len(r_written) = 1

\* C29: with --max-rows N > 0 every rendered row is one of the first N sorted
\* entries, the rendered rows are in sorted order and at most N, and 'rows with
\* any model output' counts the entries with an output among the first N only.
C29_CapBeforeMissingFilter ==
    (r_pc = "done" /\ r_max_rows > 0) =>
        /\ \A i \in 1..Len(r_written) : RankOf(r_written[i]) <= r_max_rows
        /\ \A i, j \in 1..Len(r_written) :
              i < j => RankOf(r_written[i]) < RankOf(r_written[j])
        /\ Len(r_written) <= r_max_rows
        /\ rows_written = Len(r_written)
        /\ rows_with_any = Cardinality({key \in DOMAIN entries :
                                           /\ RankOf(key) <= r_max_rows
                                           /\ HasNonEmptyOutput(key)})

\* --max-rows 1 without --include-missing: the first sorted entry has no output
\* and the second has one; nothing is rendered and nothing is counted
C29_Witness ==
    /\ r_pc = "done"
    /\ r_max_rows = 1
    /\ ~r_include_missing
    /\ Cardinality(DOMAIN entries) = 2
    /\ ~HasNonEmptyOutput(<<"physics_iq", "t2v", <<"a">>>>)
    /\ HasNonEmptyOutput(<<"physics_iq", "t2v", <<"b">>>>)
    /\ rows_written = 0
    /\ rows_with_any = 0

\* C27 (as stated): after a call of _link_media for a source that is a regular
\* file the media entry is a symbolic link to the relative path of the source
\* and a reference is returned; a link that pointed elsewhere was replaced, a
\* link that pointed there was neither removed nor created again; after a call
\* for any other source nothing is returned and nothing has changed.
C27_MediaEntryLinksToSource ==
    lm_calls > 0 =>
        IF lm_src = "file"
        THEN /\ lm_ref
             /\ lm_dst = DirEntry("symlink", "t", FALSE)
             /\ (lm_before[1].kind = "symlink" /\ lm_before[1].of # "t") =>
                   (lm_unlinked /\ lm_linked)
             /\ lm_before[1] = DirEntry("symlink", "t", FALSE) =>
                   (~lm_unlinked /\ ~lm_linked)
        ELSE /\ ~lm_ref
             /\ <<lm_dst, lm_media_dir>> = lm_before
             /\ ~lm_unlinked
             /\ ~lm_linked

(***************************************************************************)
(* Claims about the Layout Preparer.                                       *)
(***************************************************************************)
\* the row lacks a prompt or a ground-truth field, or names a ground-truth or
\* image file that does not exist
BadRow(row) ==
    \/ Strip(row.prompt) = <<>>
    \/ Strip(row.ground_truth_video) = <<>>
    \/ ~LayoutIsFile(Strip(row.ground_truth_video))
    \/ Strip(row.image) # <<>> /\ ~LayoutIsFile(Strip(row.image))

\* the sample_id of row i of the manifest after sanitization
SanitizedId(i) == _safe_sample_id(Strip(l_rows[i].sample_id), i)

\* the rows whose sanitized id is that of an earlier row
DuplicateRows == {j \in 1..Len(l_rows) : \E i \in 1..(j - 1) : SanitizedId(i) = SanitizedId(j)}

FirstDuplicate == CHOOSE j \in DuplicateRows : \A k \in DuplicateRows : j <= k

FirstOccurrence ==
    CHOOSE i \in 1..Len(l_rows) :
        /\ SanitizedId(i) = SanitizedId(FirstDuplicate)
        /\ \A k \in 1..(i - 1) : SanitizedId(k) # SanitizedId(FirstDuplicate)

\* normalization has run: the arguments were accepted and main is past line 419
Normalized == l_pc \notin {"start", "args"} /\ unsupported_tasks(l_tasks) = <<>>

\* C11: a manifest with a bad row anywhere among its rows never gets past
\* validation, and nothing has been created under the run root, at the time the
\* error is raised or at any other time of the run.
C11_BadRowLeavesNoTree ==
    (\E i \in 1..Len(l_rows) : BadRow(l_rows[i]))
        => /\ l_fs = {}
           /\ l_assets = <<>>
           /\ l_pc \in {"start", "args", "failed"}
           /\ Normalized => l_error.kind \in {"missing_prompt", "missing_gt", "gt_not_found",
                                              "image_not_found", "duplicate"}

\* a bad row after a valid row has aborted the run
C11_Witness ==
    /\ l_pc = "failed"
    /\ Len(l_rows) = 2
    /\ ~BadRow(l_rows[1])
    /\ BadRow(l_rows[2])
    /\ l_error = Raised("missing_prompt", <<2>>)

\* C14 (as stated): a manifest with two rows of the same sanitized id fails with
\* the duplicate error naming the first occurrence and the duplicate, and gives
\* no records; a manifest of distinct sanitized ids never fails with it.
C14_DuplicateIdIsNamed ==
    Normalized =>
        IF DuplicateRows # {}
        THEN /\ l_pc = "failed"
             /\ l_error = Raised("duplicate", <<FirstOccurrence, FirstDuplicate>>)
             /\ l_records = <<>>
        ELSE l_error.kind # "duplicate"

\* C14 (amended): the duplicate error is raised, naming the first occurrence and
\* the duplicate, when no row before the duplicate is a bad row; when one is,
\* the run fails with the error of the first bad row instead.  Either way no
\* records are returned, and distinct sanitized ids never raise the error.
C14_DuplicateIdIsNamedUnlessEarlierBadRow ==
    Normalized =>
        IF DuplicateRows # {}
        THEN /\ l_pc = "failed"
             /\ l_records = <<>>
             /\ IF \E i \in 1..(FirstDuplicate - 1) : BadRow(l_rows[i])
                THEN /\ l_error.kind \in {"missing_prompt", "missing_gt", "gt_not_found",
                                          "image_not_found"}
                     /\ l_error.rows = <<CHOOSE i \in 1..(FirstDuplicate - 1) :
                                            /\ BadRow(l_rows[i])
                                            /\ \A k \in 1..(i - 1) : ~BadRow(l_rows[k])>>
                ELSE l_error = Raised("duplicate", <<FirstOccurrence, FirstDuplicate>>)
        ELSE l_error.kind # "duplicate"

\* two rows whose raw ids differ and whose sanitized ids are equal; the
\* duplicate is itself a bad row, and the duplicate error is the one raised
C14_Witness ==
    /\ l_pc = "failed"
    /\ Len(l_rows) = 2
    /\ l_rows[1].sample_id # l_rows[2].sample_id
    /\ BadRow(l_rows[2])
    /\ l_error = Raised("duplicate", <<1, 2>>)

\* the sample of row i has an input image: one is supplied, or the first frame
\* of its ground truth is extracted
RowHasImage(i) == Strip(l_rows[i].image) # <<>> \/ l_extract

\* the sanitized ids of the rows in keep, in row order
RECURSIVE IdsOfRows(_, _)
IdsOfRows(i, keep) ==
    IF i > Len(l_rows) THEN <<>>
    ELSE (IF i \in keep THEN <<SanitizedId(i)>> ELSE <<>>) \o IdsOfRows(i + 1, keep)

\* C17: the i2v manifest of every model holds the samples with an image, in row
\* order, and its skipped list the samples without one; the t2v manifest holds
\* every sample and skips none; replication raises nothing.
C17_I2vManifestHasImageSamples ==
    /\ l_pc \in {"layout", "done"} => l_error = NoError
    /\ l_pc = "done" => DOMAIN l_manifests = SetOf(LayoutPairs(LAYOUT_MODELS, l_tasks))
    /\ \A pair \in DOMAIN l_manifests :
          LET withImage == {i \in 1..Len(l_rows) : RowHasImage(i)}
          IN  IF pair[2] = "i2v"
              THEN /\ l_manifests[pair] = IdsOfRows(1, withImage)
                   /\ l_skipped[pair] = IdsOfRows(1, (1..Len(l_rows)) \ withImage)
              ELSE /\ l_manifests[pair] = IdsOfRows(1, 1..Len(l_rows))
                   /\ l_skipped[pair] = <<>>

\* a finished run of two samples, the second without an image: both are in the
\* t2v manifest, the first alone in the i2v manifest, the second is skipped
C17_Witness ==
    /\ l_pc = "done"
    /\ l_tasks = DEFAULT_TASKS
    /\ Len(l_rows) = 2
    /\ RowHasImage(1)
    /\ ~RowHasImage(2)
    /\ l_manifests[<<"wan21", "i2v">>] = <<SanitizedId(1)>>
    /\ l_skipped[<<"wan21", "i2v">>] = <<SanitizedId(2)>>
    /\ l_manifests[<<"wan21", "t2v">>] = <<SanitizedId(1), SanitizedId(2)>>

\* the records _prepare_shared_assets has been through without raising
Prepared == 1..Len(l_assets)

\* C23: shared asset creation raises the no-image error exactly for a sample
\* without a manifest image when extraction is disabled and strict mode is on;
\* with strict mode off such a sample is kept without an image and its
\* sample.json is written; a sample with an image, or with extraction enabled,
\* never raises it.
C23_NoImageFatalIffStrict ==
    /\ l_error.kind = "no_image" =>
          /\ l_strict
          /\ ~l_extract
          /\ l_error.rows = <<Len(l_assets) + 1>>
          /\ Strip(l_rows[Len(l_assets) + 1].image) = <<>>
    /\ \A i \in Prepared :
          /\ PathOf("datasets", "", l_assets[i].sample_id, "sample.json") \in l_fs
          /\ (Strip(l_rows[i].image) = <<>> /\ ~l_extract) =>
                /\ ~l_strict
                /\ ~l_assets[i].image_path
                /\ PathOf("datasets", "", l_assets[i].sample_id, "input_image") \notin l_fs
          /\ (Strip(l_rows[i].image) # <<>> \/ l_extract) => l_assets[i].image_path
    /\ (l_pc = "failed" /\ Normalized /\ l_records # <<>>) =>
          l_error.kind = (IF l_extract THEN "ffmpeg" ELSE "no_image")

\* in strict mode without extraction the first sample, which has an image, is
\* prepared and the second, which has none, raises the error
C23_Witness ==
    /\ l_pc = "failed"
    /\ l_strict
    /\ ~l_extract
    /\ Len(l_assets) = 1
    /\ l_assets[1].image_path
    /\ l_error = Raised("no_image", <<2>>)

\* C28: the manifests written for one task list the same sample_ids in the
\* same order for every model, and no manifest lists a sample_id twice; when
\* the run has ended every requested (model, task) has its manifest.
C28_ManifestsAgreeAcrossModels ==
    /\ \A p, q \in DOMAIN l_manifests : p[2] = q[2] => l_manifests[p] = l_manifests[q]
    /\ \A p \in DOMAIN l_manifests :
          \A i, j \in 1..Len(l_manifests[p]) :
              i # j => l_manifests[p][i] # l_manifests[p][j]
    /\ l_pc = "done" =>
          \A i \in 1..Len(LAYOUT_MODELS), j \in 1..Len(l_tasks) :
              <<LAYOUT_MODELS[i], l_tasks[j]>> \in DOMAIN l_manifests

\* a finished run for both tasks: both models have the same two-sample t2v
\* manifest and the same one-sample i2v manifest
C28_Witness ==
    /\ l_pc = "done"
    /\ l_tasks = DEFAULT_TASKS
    /\ Len(l_manifests[<<"wan22", "t2v">>]) = 2
    /\ l_manifests[<<"wan21", "t2v">>] = l_manifests[<<"wan22", "t2v">>]
    /\ Len(l_manifests[<<"wan22", "i2v">>]) = 1
    /\ l_manifests[<<"wan21", "i2v">>] = l_manifests[<<"wan22", "i2v">>]

\* C22 (as stated): a call of _materialize_file with a supported mode on a
\* destination that is absent, a file or a symbolic link, a dangling one
\* included, succeeds and leaves the destination referring to the source of the
\* call; on a destination that is a directory it fails and leaves it unchanged.
C22_NonDirectoryReplaced ==
    (mt_calls > 0 /\ mt_mode # "move") =>
        /\ mt_before.kind \in {"absent", "file", "symlink"} =>
              /\ mt_error = "none"
              /\ mt_dst.kind \in {"file", "symlink"}
              /\ mt_dst.of = mt_src
        /\ mt_before.kind = "dir" =>
              /\ mt_error = "IsADirectoryError"
              /\ mt_dst = mt_before

\* C19 (as stated): when the run is aborted for an unsupported task name, the
\* run root has not been created and nothing has been written.
C19_UnsupportedTaskBeforeIO ==
    l_error.kind = "unsupported_tasks" => (~l_root_created /\ l_fs = {})

(***************************************************************************)
(* Claims about the manifest builders' text functions.                     *)
(***************************************************************************)
\* C7: every sanitizer maps every value and row index, also the empty, the
\* blank and the all-unsafe value, to a non-empty string over [A-Za-z0-9._-].
C7_SanitizedIdIsSafe ==
    t_pc = "done" =>
        /\ t_result # <<>>
        /\ \A i \in 1..Len(t_result) : t_result[i] \in SafeChars

\* a value that holds unsafe characters and whitespace around a safe one was sanitized
C7_Witness ==
    /\ t_pc = "done"
    /\ \E i \in 1..Len(t_value) : t_value[i] = "/"
    /\ \E i \in 1..Len(t_value) : t_value[i] = " "
    /\ \E i \in 1..Len(t_result) : t_result[i] = "a"
    /\ \E i \in 1..Len(t_result) : t_result[i] = "_"

\* C8 (as stated): the sample_ids written in one run of either builder are
\* pairwise distinct, whatever the raw ids.
C8_WrittenIdsDistinct ==
    b_pc = "done" =>
        \A i, j \in 1..Len(b_rows) : i # j => b_rows[i] # b_rows[j]

\* the records the loop has been through, up to a write or a skip
Scanned == 1..(b_pos - 1)

ScannedOfKind(kinds) == Cardinality({i \in Scanned : b_records[i].kind \in kinds})

Resolved == {i \in Scanned : b_records[i].kind \in {"ok", "no_video"}}

\* C21: in the CSV builder with --limit L > 0 at most L records are taken to
\* video resolution and at most L rows are written; the scan ends at the next
\* record with a prompt that passes the take filter once L have been taken,
\* and goes through every record otherwise; with L = 0 every record is scanned.
C21_LimitStopsScan ==
    (b_script = "physics" /\ b_pc \in {"loop", "done"}) =>
        /\ b_limit > 0 => (Cardinality(Resolved) <= b_limit /\ Len(b_rows) <= b_limit)
        /\ b_pc = "done" =>
              IF b_pos <= Len(b_records)
              THEN /\ b_limit > 0
                   /\ Cardinality(Resolved) = b_limit
                   /\ b_records[b_pos].kind \in {"ok", "no_video"}
              ELSE b_limit > 0 =>
                      Cardinality({i \in 1..Len(b_records) :
                                      b_records[i].kind \in {"ok", "no_video"}}) <= b_limit

\* a run with --limit 1 over a record without prompt and two admissible
\* records: the second record is written, the scan ends at the third
C21_Witness ==
    /\ b_script = "physics"
    /\ b_pc = "done"
    /\ b_limit = 1
    /\ Len(b_records) = 3
    /\ b_records[1].kind = "no_prompt"
    /\ b_records[2].kind = "ok"
    /\ b_records[3].kind = "ok"
    /\ b_pos = 3
    /\ Len(b_rows) = 1

\* the path contains the text, whatever the case of either
HasText(path, text) ==
    \E i \in 1..(Len(path) - Len(text) + 1) :
        \A k \in 1..Len(text) : LowerChar(path[i + k - 1]) = LowerChar(text[k])

\* the order of the claim between two candidate paths: take filter present
\* before absent, then the earlier preferred substring, a path with none last,
\* then fewer parts, then the shorter string; TRUE when p does not come after q
NotAfter(p, q) ==
    LET take(x) == IF k_take # <<>> /\ HasText(x, k_take) THEN 0 ELSE 1
        pref(x) == IF \E i \in 1..Len(k_prefer) : HasText(x, k_prefer[i])
                   THEN CHOOSE i \in 1..Len(k_prefer) :
                           /\ HasText(x, k_prefer[i])
                           /\ \A j \in 1..(i - 1) : ~HasText(x, k_prefer[j])
                   ELSE Len(k_prefer) + 1
        depth(x) == Cardinality({i \in 1..Len(x) : x[i] = "/"})
    IN  \/ take(p) < take(q)
        \/ take(p) = take(q) /\ pref(p) < pref(q)
        \/ take(p) = take(q) /\ pref(p) = pref(q) /\ depth(p) < depth(q)
        \/ take(p) = take(q) /\ pref(p) = pref(q) /\ depth(p) = depth(q) /\ Len(p) <= Len(q)

\* C25: the path chosen among several candidates is one of them and none of
\* them comes before it in the order of the claim; no candidate gives no match.
C25_SmallestRankChosen ==
    k_pc = "picked" =>
        IF k_matches = <<>> THEN k_best = <<>>
        ELSE /\ k_best \in SetOf(k_matches)
             /\ \A i \in 1..Len(k_matches) : NotAfter(k_best, k_matches[i])

\* of a path with the preferred substring and a deeper path with the take
\* filter in another case, the second is chosen
C25_Witness ==
    /\ k_pc = "picked"
    /\ k_take = <<"t", "1">>
    /\ k_prefer = <<<<"f", "u">>, <<"s", "p">>>>
    /\ k_matches = <<<<"/", "f", "u", "/", "a">>, <<"/", "s", "p", "/", "T", "1", "/", "a">>>>
    /\ k_best = <<"/", "s", "p", "/", "T", "1", "/", "a">>

\* C9 (as stated): _normalize_name(_normalize_name(n)) = _normalize_name(n).
C9_NormalizeIdempotent ==
    n_pc = "done" => n_again = n_key

\* C10 (as stated): a name whose tokens are joined by "_" or "-", and the same
\* name without its noise tokens and in either letter case, get the same key.
C10_NoiseAndCaseIgnored ==
    (/\ n_pc = "done"
     /\ n_sep \in {"_", "-"}
     /\ \E i \in 1..Len(n_parts) : n_parts[i] \in NameWords) => n_key = n_plain_key

====
